---- MODULE Spec2Model ----
(***************************************************************************)
(* sen2mosaic: the mosaic compositing engine of src/sen2mosaic/mosaic.py   *)
(* and the helpers of src/sen2mosaic/utilities.py it calls.                *)
(*                                                                         *)
(* Spec      the provenance engine: generateSCLArray, which sorts the      *)
(*           scenes, then folds _updateMaskArrays over them to build the   *)
(*           classification mosaic scl_out and the provenance map image_n. *)
(* SpecBand  the band compositor: generateBandArray, which visits the      *)
(*           contributing scenes in the order of _getImageOrder and writes *)
(*           each scene's band values where image_n names that scene.      *)
(*                                                                         *)
(* SpecMain  main: the assertions on its arguments, then for each          *)
(*           resolution the scenes loaded, selected, composited, written.  *)
(* SpecSel   getSourceFilesInTile of src/sen2mosaic/utilities.py: the      *)
(*           overlap test, which stores the transformed corners, and the   *)
(*           date test.                                                    *)
(* SpecSort  sortScenes, alone and as generateSCLArray calls it.           *)
(* SpecTasks generateBandArray called for several bands side by side.      *)
(* SpecMask  improveMask on an array of one dimension.                     *)
(* SpecHist  histogram_match on arrays without masked elements.            *)
(*                                                                         *)
(* A raster is a function from Pixels to numbers.  Reprojection is an      *)
(* external capability (GDAL): the model draws the reprojected mask of a   *)
(* scene from a small set when the code loads it, and remembers it; the    *)
(* reprojected bands are fixed by the scene, the band and the pixel.       *)
(***************************************************************************)
EXTENDS Integers, Sequences, FiniteSets, TLC

\* ------------------------------------------------------------------ bounds
\* Number of pixels of the destination grid (md_dest.nrows * md_dest.ncols).
NPix == 3
\* Largest number of scenes handed to generateSCLArray / generateBandArray.
MaxScenes == 3
\* Largest number of scenes of one tile handed to main.
MaxTile == 18

Pixels == 1..NPix

\* Classification codes that occur in the reprojected masks of the model:
\* 0 no data, 4 and 6 the two ends of the usable range, 9 high cloud.
\* The longer the scene list, the fewer codes its masks are drawn from,
\* which keeps the number of mask sequences checkable: lists of up to two
\* scenes use all four codes, lists of three scenes one usable class, and
\* longer lists only "usable" and "cloud".
Codes == {0, 4, 6, 9}
maskCodes(len) ==
    IF len <= 2 THEN Codes ELSE IF len = 3 THEN {0, 4, 9} ELSE {4, 9}

\* Width of the provenance raster: image_n is created with dtype uint16.
UInt16 == 65536

\* The three compositing policies and one value outside the enumeration.
Algorithms == {"MOST_RECENT", "MOST_DISTANT", "TEMP_HOMOGENEITY"}
AlgorithmInputs == Algorithms \cup {"OTHER"}

\* ------------------------------------------------------ coordinate systems
\* Two neighbouring UTM zones, EPSG 32736 and 32737.  The reprojection of a
\* point from one zone to the other (osr, an external capability) is taken
\* as the translation of its easting by the width of a zone, four units,
\* and leaves the northing alone.
EPSGs == {32736, 32737}
TransformPoint(src, dst, x, y) == <<x + 4 * (src - dst), y>>

\* ------------------------------------------------------- scene attributes
\* A scene is named by the position of its file in the pool of input files.
\* scene.tile and scene.datetime are read from the file name; the pool is
\* chosen so that sorting by tile, then date, is not the identity.
\* A second pool, the files 101 to 105, lies on four tiles in a row: two
\* scenes of tile 1, one each of tiles 0 and 2, and one of tile 3, which
\* belongs to the next UTM zone.
\* A third pool, the files from 201 on, holds the scenes of one tile, two
\* for each acquisition time.
PoolB == 101..105
PoolC == 201..(200 + MaxTile)
sceneTile(s) ==
    IF s \in PoolB THEN <<1, 1, 0, 2, 3>>[s - 100]
    ELSE IF s \in PoolC THEN 0
    ELSE (s + 1) % 2
sceneDate(s) == IF s \in PoolC THEN (s - 199) \div 2 ELSE MaxScenes - s
\* scene.EPSG
sceneEPSG(s) == IF s = 105 THEN 32737 ELSE 32736
\* Centre of the scene footprint (scene.extent) in the coordinates of the
\* scene's own zone, in units of one tile: the scenes of one tile share
\* their footprint.  Tile 3 lies one unit east of tile 2, which in its own
\* zone is the easting -1.
sceneCentre(s) == [x |-> IF s = 105 THEN 0 - 1 ELSE sceneTile(s), y |-> 0]

\* The bands composited, and the colour balance modes of the model.
Bands == {"B02", "B03"}
BalanceModes == {"none", "basic", "aggressive"}
\* loadBand(scene, band, md_dest): the reprojected band of a scene, fixed by
\* the files on disk.  At one pixel of one band no two scenes of the pool
\* hold the same value, and some values are 0.
loadBand(s, b) ==
    [p \in Pixels |-> (7 * s + 3 * p + (IF b = "B02" THEN 0 ELSE 5)) % 11]

VARIABLES
    algorithm,   \* generateSCLArray: the compositing policy
    correct_mask, \* generateSCLArray: whether it loads the improved masks
    scenes,      \* the scene list, after sortScenes
    masks,       \* masks[k]: reprojected mask of scenes[k], as
                 \* generateSCLArray loaded it
    scl_out,     \* the classification mosaic
    image_n,     \* the provenance map
    n,           \* number of scenes the loop of generateSCLArray has visited
    pc,          \* generateSCLArray: "idle", "loop", "returned", "raised"
    colour_balance, \* generateBandArray: colour balance mode
    band,        \* generateBandArray: the band being composited
    order,       \* generateBandArray: image numbers still to be visited
    data_out,    \* generateBandArray: the band output raster
    band_scl,    \* generateBandArray: scl_resampled, the mask loaded last
    visited,     \* generateBandArray: image numbers the loop has visited
    corrections, \* generateBandArray: the branch taken for each of them
    band_pc      \* generateBandArray: "idle", "loop", "returned", "raised"

VARIABLES
    main_args,   \* main: the arguments of the call
    main_pc,     \* main: "idle", "loop", "selected", "masked", "done", "raised"
    res_list,    \* main: the resolutions still to be processed
    band_list,   \* main: the bands still to be composited at this resolution
    in_tile,     \* main: len(scenes_tile) at the resolution being processed
    loaded,      \* main: resolutions at which the scenes were loaded
    masks_read,  \* main: resolutions at which a mask was read and reprojected
    written      \* main: the output files written, as <<resolution, name>>

VARIABLES
    sel_scenes,  \* getSourceFilesInTile: the scene objects handed to it
    fresh,       \* the same scenes as LoadScene constructed them
    md_dest,     \* the Metadata of the destination grid
    window,      \* the date window: start and end, as days
    scenes_tile, \* the list returned: positions in sel_scenes
    first_tile,  \* the list the first call returned
    calls,       \* number of calls of the selector on these scene objects
    sel_pc       \* getSourceFilesInTile: "idle", "returned", "raised"

VARIABLES
    sort_in,     \* sortScenes: the list handed to it
    sort_by,     \* sortScenes: the key, 'tile' or 'date'
    sort_out,    \* sortScenes: the list returned
    sort_pc      \* sortScenes: "idle", "returned"

VARIABLES
    tasks        \* generateBandArray, one call for each band, side by side:
                 \* tasks[b] holds the order, data_out and position of band b

VARIABLES
    mask_data,   \* improveMask: the array of the caller
    mask_res,    \* improveMask: the pixel size
    mask_returned, \* improveMask: the array returned
    mask_dilated, \* improveMask: data after the dilations (line 694)
    mask_pc      \* improveMask: "idle", "returned"

VARIABLES
    hist_source, \* histogram_match: the array to adjust
    hist_mask,   \* histogram_match: the mask of the array to adjust
    hist_reference, \* histogram_match: the array whose histogram is matched
    hist_target, \* histogram_match: the array returned (its data)
    hist_target_mask, \* histogram_match: the mask of the array returned
    hist_pc      \* histogram_match: "idle", "returned"

VARIABLES
    n_processes, \* _run_workers: the number of worker processes asked for
    jobs,        \* _run_workers: the jobs handed to it
    queued,      \* _run_workers: the number of jobs put on the queue
    job_buffer,  \* job_queue: the jobs put that its feeder has yet to send
    job_pipe,    \* job_queue: the jobs a worker can get
    workers,     \* the workers started: position in _do_work ("test",
                 \* "get", "run", "count", "exited"), job in hand
    runs,        \* runs[j]: the number of calls main_partial(j) so far
    counter,     \* the shared counter of jobs done
    joined,      \* _run_workers: the number of workers joined
    run_pc       \* _run_workers: "idle", "called", "starting", "joining",
                 \* "returned"

VARIABLES
    l2a_args,    \* L2A.main: resolution, remove, output_dir
    l2a_files,   \* the level 2A files under output_dir: <<res, band>> |->
                 \* the number of times its content went through improveMask
    l1c_present, \* whether the level 1C input is on disk
    l2a_error,   \* L2A.main: the exception it raised, "" for none
    l2a_pc       \* L2A.main: "idle", "called", "raised"; then removeL1C:
                 \* "removed", "refused"

sclVars == <<algorithm, correct_mask, scenes, masks, scl_out, image_n, n, pc>>
bandVars == <<colour_balance, band, order, data_out, band_scl, visited,
              corrections, band_pc>>
mainVars == <<main_args, main_pc, res_list, band_list, in_tile, loaded,
              masks_read, written>>
selVars == <<sel_scenes, fresh, md_dest, window, scenes_tile, first_tile,
             calls, sel_pc>>
\* The variables of the other parts of the program, which the provenance
\* engine and the band compositor leave alone.
sortVars == <<sort_in, sort_by, sort_out, sort_pc>>
taskVars == <<tasks>>
maskVars == <<mask_data, mask_res, mask_returned, mask_dilated, mask_pc>>
histVars == <<hist_source, hist_mask, hist_reference, hist_target,
              hist_target_mask, hist_pc>>
workVars == <<n_processes, jobs, queued, job_buffer, job_pipe, workers,
              runs, counter, joined, run_pc>>
l2aVars == <<l2a_args, l2a_files, l1c_present, l2a_error, l2a_pc>>
preVars == <<workVars, l2aVars>>
restVars == <<mainVars, selVars, sortVars, taskVars, maskVars, histVars,
              preVars>>
vars == <<sclVars, bandVars, restVars>>
\* What each of the other parts leaves alone.
outsideMain == <<sclVars, bandVars, selVars, sortVars, taskVars, maskVars,
                 histVars,
        preVars>>
outsideSel == <<sclVars, bandVars, mainVars, sortVars, taskVars, maskVars,
                histVars,
        preVars>>
outsideSort == <<bandVars, mainVars, selVars, taskVars, maskVars, histVars,
        preVars>>
outsideTasks == <<sclVars, bandVars, mainVars, selVars, sortVars, maskVars,
                  histVars,
        preVars>>
outsideMask == <<sclVars, bandVars, mainVars, selVars, sortVars, taskVars,
                 histVars,
        preVars>>
outsideProcessing == <<sclVars, bandVars, mainVars, selVars, sortVars,
                       taskVars, maskVars, histVars>>
outsideHist == <<sclVars, bandVars, mainVars, selVars, sortVars, taskVars,
                 maskVars,
        preVars>>

\* ------------------------------------------------------------ small helpers
Max(S) == CHOOSE x \in S : \A y \in S : y <= x
Min(S) == CHOOSE x \in S : \A y \in S : x <= y

\* np.zeros((md.nrows, md.ncols))
createOutputArray == [p \in Pixels |-> 0]

\* int(round(a / b)) for a >= 0 and b > 0.
roundDiv(a, b) == (2 * a + b) \div (2 * b)

\* utilities.Metadata(extent, res, EPSG): extent is [xmin, ymin, xmax, ymax].
Metadata(extent, res, EPSG) ==
    [extent |-> extent, res |-> res, EPSG_code |-> EPSG,
     ulx |-> extent[1], lry |-> extent[2], lrx |-> extent[3],
     uly |-> extent[4],
     nrows |-> roundDiv(extent[4] - extent[2], res),
     ncols |-> roundDiv(extent[3] - extent[1], res),
     geo_t |-> <<extent[1], res, 0, extent[4], 0, 0 - res>>]

\* The reprojected masks loadMask can return for the scene at enumerate
\* index k of a list of len scenes.  _updateMaskArrays treats all pixels
\* alike (point-wise tests and counts over the whole array), so the first
\* mask is taken with its codes in ascending pixel order: any other
\* sequence of masks is one of these with the pixels renumbered.
Masks(len, k) ==
    { m \in [Pixels -> maskCodes(len)] :
        k = 0 => \A p, q \in Pixels : p < q => m[p] <= m[q] }

\* The scene lists handed to the engine: the first k files of the pool,
\* in any order.
SceneLists ==
    UNION { { s \in [1..k -> 1..k] : \A i, j \in 1..k : i # j => s[i] # s[j] }
            : k \in 0..MaxScenes }

\* ------------------------------------------------------------- sortScenes
\* The number of times s stands in a list.
occurrences(list, s) == Cardinality({ i \in DOMAIN list : list[i] = s })

\* np.unique: the distinct values, ascending.
RECURSIVE unique(_)
unique(S) == IF S = {} THEN <<>> ELSE <<Min(S)>> \o unique(S \ {Min(S)})

\* np.argsort, kind 'quicksort' (numpy's npy_aquicksort).  tosort holds
\* the indices being sorted, v the keys.
\* Partitions of up to SMALL_QUICKSORT + 1 elements are sorted by
\* insertion: equal keys keep their order.
SMALL_QUICKSORT == 16

insertionSorted(v, tosort, pl, pr) ==
    LET before(i, j) ==
            \/ v[tosort[i]] < v[tosort[j]]
            \/ (v[tosort[i]] = v[tosort[j]] /\ i < j)
        rank(i) == Cardinality({ j \in pl..pr : before(j, i) })
    IN  [k \in DOMAIN tosort |->
            IF k \in pl..pr
            THEN tosort[CHOOSE i \in pl..pr : rank(i) = k - pl]
            ELSE tosort[k]]

\* INTP_SWAP
swap(tosort, i, j) == [tosort EXCEPT ![i] = tosort[j], ![j] = tosort[i]]

\* The three conditional swaps that bring the median of the first, middle
\* and last element to the middle.
median3(v, tosort, pl, pm, pr) ==
    LET a == IF v[tosort[pm]] < v[tosort[pl]]
             THEN swap(tosort, pm, pl) ELSE tosort
        b == IF v[a[pr]] < v[a[pm]] THEN swap(a, pr, pm) ELSE a
    IN  IF v[b[pm]] < v[b[pl]] THEN swap(b, pm, pl) ELSE b

\* The partition loop: pi runs up to an element not below the pivot vp,
\* pj down to one not above it, and the two are swapped until they meet.
RECURSIVE scan(_, _, _, _, _)
scan(v, tosort, vp, pi, pj) ==
    LET i == Min({ k \in (pi + 1)..Len(tosort) : ~(v[tosort[k]] < vp) })
        j == Max({ k \in 1..(pj - 1) : ~(vp < v[tosort[k]]) })
    IN  IF i >= j THEN [tosort |-> tosort, pi |-> i]
        ELSE scan(v, swap(tosort, i, j), vp, i, j)

partitioned(v, tosort, pl, pr) ==
    LET pm == pl + (pr - pl) \div 2
        m == median3(v, tosort, pl, pm, pr)
        s == scan(v, swap(m, pm, pr - 1), v[m[pm]], pl, pr - 1)
    IN  [tosort |-> swap(s.tosort, s.pi, pr - 1), pi |-> s.pi]

RECURSIVE aquicksort(_, _, _, _)
aquicksort(v, tosort, pl, pr) ==
    IF pr - pl > SMALL_QUICKSORT
    THEN LET p == CHOOSE x \in { partitioned(v, t, pl, pr) : t \in {tosort} } :
                      TRUE
         IN  aquicksort(v, aquicksort(v, p.tosort, pl, p.pi - 1),
                        p.pi + 1, pr)
    ELSE insertionSorted(v, tosort, pl, pr)

\* np.argsort(keys): the indices in ascending order of key.  An array of
\* more than SMALL_QUICKSORT + 1 elements is partitioned first, without
\* regard to the order of equal keys.
argsort(keys) ==
    aquicksort(keys, [k \in 1..Len(keys) |-> k], 1, Len(keys))

\* scenes[tiles == tile]: the scenes of one tile, in list order.
RECURSIVE ofTile(_, _)
ofTile(list, tile) ==
    IF list = <<>> THEN <<>>
    ELSE (IF sceneTile(Head(list)) = tile THEN <<Head(list)>> ELSE <<>>)
         \o ofTile(Tail(list), tile)

\* The scenes of one tile with the latest first.
byDate_latestFirst(list) ==
    LET ix == argsort([i \in 1..Len(list) |-> 0 - sceneDate(list[i])])
    IN  [k \in 1..Len(list) |-> list[ix[k]]]

\* scenes[tiles == tile][np.argsort(dates[tiles == tile])]
byDate(list) ==
    LET ix == argsort([i \in 1..Len(list) |-> sceneDate(list[i])])
    IN  [k \in 1..Len(list) |-> list[ix[k]]]

RECURSIVE extendByTile(_, _)
extendByTile(list, tiles) ==
    IF tiles = <<>> THEN <<>>
    ELSE byDate(ofTile(list, Head(tiles))) \o extendByTile(list, Tail(tiles))

\* sortScenes(scenes, by = 'tile')
sortScenes(list) ==
    extendByTile(list, unique({ sceneTile(list[i]) : i \in 1..Len(list) }))

\* ------------------------------------------------------ _updateMaskArrays
\* 4 <= code <= 6
Good(code) == code >= 4 /\ code <= 6

\* good_px = np.logical_and(scl_resampled >= 4, scl_resampled <= 6)
good_px(scl_resampled) == { p \in Pixels : Good(scl_resampled[p]) }

\* np.unique(image_n[image_n > 0 and scl_resampled != 0], return_counts)
counts(scl_resampled, img) ==
    LET held == { p \in Pixels : img[p] > 0 /\ scl_resampled[p] # 0 }
    IN  { Cardinality({ p \in held : img[p] = k }) : k \in { img[p] : p \in held } }

\* Variants of the selection, each the slip named in its comment.
\* MOST_DISTANT without the test on scl_out: a later scene overwrites.
selection_distantOverwrites(scl, scl_resampled, img, alg) ==
    CASE alg = "MOST_RECENT" -> good_px(scl_resampled)
      [] alg = "MOST_DISTANT" -> good_px(scl_resampled)
      [] alg = "TEMP_HOMOGENEITY" ->
            LET unfilled == { p \in good_px(scl_resampled) : img[p] = 0 }
                c == counts(scl_resampled, img)
            IN  IF c # {} /\ Cardinality(good_px(scl_resampled)) > Max(c)
                THEN unfilled \cup good_px(scl_resampled)
                ELSE unfilled

\* MOST_RECENT with the selection left commented out at line 125: other
\* data (non-zero, not good) is taken where no good data exist yet.
selection_recentTakesOther(scl, scl_resampled, img, alg) ==
    CASE alg = "MOST_RECENT" ->
            good_px(scl_resampled) \cup
            { p \in Pixels : /\ scl_resampled[p] > 0
                             /\ p \notin good_px(scl_resampled)
                             /\ (scl[p] < 4 \/ scl[p] > 6) }
      [] alg = "MOST_DISTANT" ->
            { p \in good_px(scl_resampled) : scl[p] < 4 \/ scl[p] > 6 }
      [] alg = "TEMP_HOMOGENEITY" ->
            LET unfilled == { p \in good_px(scl_resampled) : img[p] = 0 }
                c == counts(scl_resampled, img)
            IN  IF c # {} /\ Cardinality(good_px(scl_resampled)) > Max(c)
                THEN unfilled \cup good_px(scl_resampled)
                ELSE unfilled

\* TEMP_HOMOGENEITY comparing with >= instead of >.
selection_homogeneityTies(scl, scl_resampled, img, alg) ==
    CASE alg = "MOST_RECENT" -> good_px(scl_resampled)
      [] alg = "MOST_DISTANT" ->
            { p \in good_px(scl_resampled) : scl[p] < 4 \/ scl[p] > 6 }
      [] alg = "TEMP_HOMOGENEITY" ->
            LET unfilled == { p \in good_px(scl_resampled) : img[p] = 0 }
                c == counts(scl_resampled, img)
            IN  IF c # {} /\ Cardinality(good_px(scl_resampled)) >= Max(c)
                THEN unfilled \cup good_px(scl_resampled)
                ELSE unfilled

\* TEMP_HOMOGENEITY without the re-selection of lines 140-145.
selection_homogeneityNeverReselects(scl, scl_resampled, img, alg) ==
    CASE alg = "MOST_RECENT" -> good_px(scl_resampled)
      [] alg = "MOST_DISTANT" ->
            { p \in good_px(scl_resampled) : scl[p] < 4 \/ scl[p] > 6 }
      [] alg = "TEMP_HOMOGENEITY" ->
            { p \in good_px(scl_resampled) : img[p] = 0 }

\* TEMP_HOMOGENEITY re-selecting every pixel with data, not every good one.
selection_homogeneityReselectsData(scl, scl_resampled, img, alg) ==
    CASE alg = "MOST_RECENT" -> good_px(scl_resampled)
      [] alg = "MOST_DISTANT" ->
            { p \in good_px(scl_resampled) : scl[p] < 4 \/ scl[p] > 6 }
      [] alg = "TEMP_HOMOGENEITY" ->
            LET unfilled == { p \in good_px(scl_resampled) : img[p] = 0 }
                c == counts(scl_resampled, img)
            IN  IF c # {} /\ Cardinality(good_px(scl_resampled)) > Max(c)
                THEN unfilled \cup { p \in Pixels : scl_resampled[p] # 0 }
                ELSE unfilled

\* The pixels the scene takes, per policy.
selection(scl, scl_resampled, img, alg) ==
    CASE alg = "MOST_RECENT" -> good_px(scl_resampled)
      [] alg = "MOST_DISTANT" ->
            { p \in good_px(scl_resampled) : scl[p] < 4 \/ scl[p] > 6 }
      [] alg = "TEMP_HOMOGENEITY" ->
            LET unfilled == { p \in good_px(scl_resampled) : img[p] = 0 }
                c == counts(scl_resampled, img)
            IN  IF c # {} /\ Cardinality(good_px(scl_resampled)) > Max(c)
                THEN unfilled \cup good_px(scl_resampled)
                ELSE unfilled

\* Variants of the update, each the slip named in its comment.
\* The image number written to every good pixel, not to the selection.
updateMaskArrays_numbersGood(scl, scl_resampled, img, num, alg) ==
    LET sel  == selection(scl, scl_resampled, img, alg)
        scl1 == [p \in Pixels |-> IF p \in sel THEN scl_resampled[p] ELSE scl[p]]
        img1 == [p \in Pixels |-> IF p \in good_px(scl_resampled)
                                  THEN num % UInt16 ELSE img[p]]
        img2 == [p \in Pixels |-> IF scl1[p] < 4 \/ scl1[p] > 6 THEN 0 ELSE img1[p]]
    IN  [scl_out |-> scl1, image_n |-> img2]

\* Line 157 testing scl_resampled instead of scl_out.
updateMaskArrays_resetsByScene(scl, scl_resampled, img, num, alg) ==
    LET sel  == selection(scl, scl_resampled, img, alg)
        scl1 == [p \in Pixels |-> IF p \in sel THEN scl_resampled[p] ELSE scl[p]]
        img1 == [p \in Pixels |-> IF p \in sel THEN num % UInt16 ELSE img[p]]
        img2 == [p \in Pixels |-> IF scl_resampled[p] < 4 \/ scl_resampled[p] > 6
                                  THEN 0 ELSE img1[p]]
    IN  [scl_out |-> scl1, image_n |-> img2]

\* _updateMaskArrays(scl_out, scl_resampled, image_n, n, algorithm), for an
\* algorithm that passes the assertion: the pair (scl_out, image_n).
updateMaskArrays(scl, scl_resampled, img, num, alg) ==
    LET sel  == selection(scl, scl_resampled, img, alg)
        scl1 == [p \in Pixels |-> IF p \in sel THEN scl_resampled[p] ELSE scl[p]]
        img1 == [p \in Pixels |-> IF p \in sel THEN num % UInt16 ELSE img[p]]
        img2 == [p \in Pixels |-> IF scl1[p] < 4 \/ scl1[p] > 6 THEN 0 ELSE img1[p]]
    IN  [scl_out |-> scl1, image_n |-> img2]

\* The enumerate index passed as it is (n instead of n + 1).
imageNumber_zeroBased(k) == k

\* The image number generateSCLArray gives the scene at enumerate index k.
imageNumber(k) == k + 1

\* -------------------------------------------------------- generateSCLArray
\* Before generateSCLArray is called.
IdleSCL ==
    /\ algorithm = "TEMP_HOMOGENEITY"
    /\ correct_mask = TRUE
    /\ scenes = <<>>
    /\ masks = <<>>
    /\ scl_out = createOutputArray
    /\ image_n = createOutputArray
    /\ n = 0
    /\ pc = "idle"

\* Before generateBandArray is called.
IdleBand ==
    /\ colour_balance = "none"
    /\ band = "B02"
    /\ order = <<>>
    /\ data_out = createOutputArray
    /\ band_scl = <<>>
    /\ visited = <<>>
    /\ corrections = <<>>
    /\ band_pc = "idle"

\* Before main is called: the defaults of its signature, no file given.
IdleMain ==
    /\ main_args = [source_files |-> 0, extent_dest |-> 4, resolution |-> 0,
                    colour_balance |-> "none", correct_mask |-> "True",
                    algorithm |-> "TEMP_HOMOGENEITY"]
    /\ main_pc = "idle"
    /\ res_list = <<>>
    /\ band_list = <<>>
    /\ in_tile = 0
    /\ loaded = {}
    /\ masks_read = {}
    /\ written = {}

\* Before getSourceFilesInTile is called: no scene, a grid without pixels.
IdleSel ==
    /\ sel_scenes = <<>>
    /\ fresh = <<>>
    /\ md_dest = Metadata(<<0, 0, 0, 0>>, 1, 32736)
    /\ window = [start |-> 0, end |-> 0]
    /\ scenes_tile = <<>>
    /\ first_tile = <<>>
    /\ calls = 0
    /\ sel_pc = "idle"

\* Before sortScenes is called.
IdleSort ==
    /\ sort_in = <<>>
    /\ sort_by = "tile"
    /\ sort_out = <<>>
    /\ sort_pc = "idle"

\* Before any band is composited.
IdleTasks ==
    tasks = [b \in Bands |-> [order |-> <<>>, data_out |-> createOutputArray,
                              pc |-> "idle"]]

\* Before improveMask is called.
IdleMask ==
    /\ mask_data = <<>>
    /\ mask_res = 60
    /\ mask_returned = <<>>
    /\ mask_dilated = <<>>
    /\ mask_pc = "idle"

\* Before histogram_match is called.
IdleHist ==
    /\ hist_source = <<>>
    /\ hist_mask = <<>>
    /\ hist_reference = <<>>
    /\ hist_target = <<>>
    /\ hist_target_mask = <<>>
    /\ hist_pc = "idle"

IdleWork ==
    /\ n_processes = 0
    /\ jobs = <<>>
    /\ queued = 0
    /\ job_buffer = <<>>
    /\ job_pipe = <<>>
    /\ workers = <<>>
    /\ runs = <<>>
    /\ counter = 0
    /\ joined = 0
    /\ run_pc = "idle"

IdleL2A ==
    /\ l2a_args = [resolution |-> 0, remove |-> FALSE, output_dir |-> "cwd"]
    /\ l2a_files = [f \in {} |-> 0]
    /\ l1c_present = TRUE
    /\ l2a_error = ""
    /\ l2a_pc = "idle"

IdlePre == IdleWork /\ IdleL2A

\* The other parts of the program at rest.
IdleRest ==
    IdleMain /\ IdleSel /\ IdleSort /\ IdleTasks /\ IdlePre /\ IdleMask /\ IdleHist

Init ==
    /\ IdleSCL
    /\ IdleBand
    /\ IdleRest

\* The call: sort the scenes, create the two output arrays.
SCLStart ==
    /\ pc = "idle"
    /\ \E list \in SceneLists, alg \in AlgorithmInputs, correct \in BOOLEAN :
        /\ algorithm' = alg
        /\ correct_mask' = correct
        /\ scenes' = sortScenes(list)
    /\ scl_out' = createOutputArray
    /\ image_n' = createOutputArray
    /\ masks' = <<>>
    /\ n' = 0
    /\ pc' = "loop"
    /\ UNCHANGED <<bandVars, restVars>>

\* One iteration of the loop: loadMask, then _updateMaskArrays.  The
\* assertion on the algorithm fails before either array is written.
SCLStep ==
    /\ pc = "loop"
    /\ n < Len(scenes)
    /\ \E scl_resampled \in Masks(Len(scenes), n) :
        IF algorithm \in Algorithms
        THEN LET r == updateMaskArrays(scl_out, scl_resampled, image_n,
                                       imageNumber(n), algorithm)
             IN  /\ scl_out' = r.scl_out
                 /\ image_n' = r.image_n
                 /\ masks' = Append(masks, scl_resampled)
                 /\ n' = n + 1
                 /\ pc' = "loop"
        ELSE /\ pc' = "raised"
             /\ UNCHANGED <<scl_out, image_n, masks, n>>
    /\ UNCHANGED <<algorithm, correct_mask, scenes>>
    /\ UNCHANGED <<bandVars, restVars>>

\* After the loop: the two rasters are written under a name built from
\* scene.resolution, the loop variable, which is unbound when the loop body
\* never ran (NameError); otherwise the arrays are returned.
SCLFinish ==
    /\ pc = "loop"
    /\ n = Len(scenes)
    /\ pc' = IF Len(scenes) = 0 THEN "raised" ELSE "returned"
    /\ UNCHANGED <<algorithm, correct_mask, scenes, masks, scl_out, image_n, n>>
    /\ UNCHANGED <<bandVars, restVars>>

Next == SCLStart \/ SCLStep \/ SCLFinish

Spec == Init /\ [][Next]_vars

\* ====================================================== provenance engine
\* The scenes visited so far that are good (class 4, 5 or 6) at pixel p.
goodScenes(p) == { k \in 1..Len(masks) : Good(masks[k][p]) }
goodCount(m) == Cardinality(good_px(m))
Zeros == [p \in Pixels |-> 0]

\* C1: after every update, under each policy and for every sequence of
\* scenes, a pixel has a non-zero image number exactly when its
\* classification in scl_out is 4, 5 or 6.
ProvenanceConsistency ==
    \A p \in Pixels : (image_n[p] # 0) <=> (scl_out[p] \in {4, 5, 6})

ProvenanceConsistencyWitness ==
    /\ pc = "loop" /\ n = 2
    /\ \E p \in Pixels : image_n[p] = 2 /\ scl_out[p] = 6
    /\ \E p \in Pixels : image_n[p] = 1 /\ scl_out[p] = 4
    /\ \E p \in Pixels : image_n[p] = 0 /\ masks[2][p] = 9

\* C2: scl_out at a pixel numbered k > 0 is the reprojected code of the
\* k-th visited scene at that pixel, and scl_out is 0 where image_n is 0.
CodeComesFromNamedScene ==
    \A p \in Pixels :
        IF image_n[p] > 0
        THEN image_n[p] <= Len(masks) /\ scl_out[p] = masks[image_n[p]][p]
        ELSE scl_out[p] = 0

CodeComesFromNamedSceneWitness ==
    /\ n = 2
    /\ \E p \in Pixels : image_n[p] = 1 /\ scl_out[p] = 4 /\ masks[2][p] = 6
    /\ \E p \in Pixels : image_n[p] = 2 /\ scl_out[p] = 6 /\ masks[1][p] = 9

\* C4: under MOST_DISTANT an update leaves image_n and scl_out as they are
\* at every filled pixel, and the returned image number of a pixel is the
\* smallest index of a scene that is good there (0 if there is none).
MostDistantFirstWins ==
    /\ [][ algorithm = "MOST_DISTANT" =>
             \A p \in Pixels :
                 image_n[p] # 0 =>
                     image_n'[p] = image_n[p] /\ scl_out'[p] = scl_out[p] ]_vars
    /\ [](algorithm = "MOST_DISTANT" /\ pc \in {"loop", "returned"}
             /\ n = Len(scenes) =>
             \A p \in Pixels :
                 image_n[p] = IF goodScenes(p) = {} THEN 0
                              ELSE Min(goodScenes(p)))

MostDistantFirstWinsWitness ==
    /\ algorithm = "MOST_DISTANT" /\ pc = "returned" /\ n >= 2
    /\ \E p \in Pixels : image_n[p] = 1 /\ Good(masks[2][p])
    /\ \E p \in Pixels : image_n[p] = 2

\* C5: under MOST_RECENT the image number of a pixel is the largest index
\* of a scene that is good there (0 if there is none), and the update of a
\* scene that is not good at a pixel leaves that pixel as it is.
MostRecentLastWins ==
    /\ [](algorithm = "MOST_RECENT" /\ pc \in {"loop", "returned"} =>
             \A p \in Pixels :
                 image_n[p] = IF goodScenes(p) = {} THEN 0
                              ELSE Max(goodScenes(p)))
    /\ [][ algorithm = "MOST_RECENT" /\ n' = n + 1 =>
             \A p \in Pixels :
                 ~Good(masks'[n'][p]) =>
                     image_n'[p] = image_n[p] /\ scl_out'[p] = scl_out[p] ]_vars

\* Scenario A: a good scene, then an all-cloud scene.
MostRecentLastWinsWitness ==
    /\ algorithm = "MOST_RECENT" /\ pc = "returned" /\ n = 2
    /\ \A p \in Pixels : masks[1][p] = 4 /\ masks[2][p] = 9 /\ image_n[p] = 1

\* The number of pixels scene j holds among those where mask m has data.
heldBy(j, m) == Cardinality({ p \in Pixels : image_n[p] = j /\ m[p] # 0 })
largestHeld(m) == Max({ heldBy(j, m) : j \in 1..n } \cup {0})

\* C6: under TEMP_HOMOGENEITY a scene takes every unfilled pixel where it
\* is good; it takes the filled pixels where it is good when its number of
\* good pixels exceeds the largest number of pixels one earlier scene holds
\* where the new scene has data; otherwise every filled pixel is left alone.
HomogeneityRule ==
    [][ algorithm = "TEMP_HOMOGENEITY" /\ n' = n + 1 =>
          LET m == masks'[n'] IN
          /\ \A p \in Pixels :
                 Good(m[p]) /\ image_n[p] = 0 =>
                     image_n'[p] = n' /\ scl_out'[p] = m[p]
          /\ goodCount(m) > largestHeld(m) =>
                 \A p \in Pixels :
                     Good(m[p]) /\ image_n[p] # 0 =>
                         image_n'[p] = n' /\ scl_out'[p] = m[p]
          /\ goodCount(m) <= largestHeld(m) =>
                 \A p \in Pixels :
                     image_n[p] # 0 =>
                         image_n'[p] = image_n[p] /\ scl_out'[p] = scl_out[p]
      ]_vars

\* Scenario C: same footprint, decreasing numbers of good pixels.
HomogeneityRuleWitness ==
    /\ algorithm = "TEMP_HOMOGENEITY" /\ pc = "returned" /\ n = 3
    /\ \A k \in 1..3 : \A p \in Pixels : masks[k][p] # 0
    /\ goodCount(masks[1]) = NPix
    /\ goodCount(masks[2]) < NPix /\ goodCount(masks[2]) > goodCount(masks[3])
    /\ goodCount(masks[3]) > 0
    /\ \A p \in Pixels : image_n[p] = 1

\* C7: under TEMP_HOMOGENEITY a scene with more good pixels than every
\* earlier scene owns, after its update, every pixel where it is good; three
\* scenes of one footprint with increasing numbers of good pixels, the last
\* one good everywhere, leave every pixel to scene 3.
HomogeneityLargerSceneWins ==
    /\ [][ /\ algorithm = "TEMP_HOMOGENEITY" /\ n' = n + 1
           /\ \A j \in 1..n : goodCount(masks'[n']) > goodCount(masks[j])
           => \A p \in Pixels : Good(masks'[n'][p]) => image_n'[p] = n' ]_vars
    /\ [](/\ algorithm = "TEMP_HOMOGENEITY" /\ pc = "returned" /\ n = 3
          /\ \A k \in 1..3 : \A p \in Pixels : masks[k][p] # 0
          /\ goodCount(masks[1]) < goodCount(masks[2])
          /\ goodCount(masks[2]) < goodCount(masks[3])
          /\ goodCount(masks[3]) = NPix
          => \A p \in Pixels : image_n[p] = 3)

\* Scenario D: same footprint, increasing numbers of good pixels.
HomogeneityLargerSceneWinsWitness ==
    /\ algorithm = "TEMP_HOMOGENEITY" /\ pc = "returned" /\ n = 3
    /\ \A k \in 1..3 : \A p \in Pixels : masks[k][p] # 0
    /\ goodCount(masks[1]) > 0
    /\ goodCount(masks[1]) < goodCount(masks[2])
    /\ goodCount(masks[2]) < goodCount(masks[3])
    /\ goodCount(masks[3]) = NPix
    /\ \A p \in Pixels : image_n[p] = 3

\* No pixel is good in two of the scenes visited so far.
DisjointGood ==
    \A j, k \in 1..Len(masks) :
        j # k => good_px(masks[j]) \cap good_px(masks[k]) = {}

\* C8: when the good regions of the scenes are pairwise disjoint, each of
\* the three policies gives a pixel the index of the one scene that is good
\* there, and 0 where none is: the three provenance maps are the same.
PoliciesAgreeOnDisjointScenes ==
    algorithm \in Algorithms /\ DisjointGood =>
        \A p \in Pixels :
            image_n[p] = IF goodScenes(p) = {} THEN 0
                         ELSE CHOOSE k \in goodScenes(p) : TRUE

\* Scenario B: scene 1 good at the first pixel, scene 2 at the last, cloud
\* elsewhere.
PoliciesAgreeOnDisjointScenesWitness ==
    /\ algorithm = "TEMP_HOMOGENEITY" /\ pc = "returned" /\ n = 2
    /\ \A p \in Pixels : masks[1][p] = (IF p = 1 THEN 4 ELSE 9)
    /\ \A p \in Pixels : masks[2][p] = (IF p = NPix THEN 4 ELSE 9)
    /\ \A p \in Pixels :
           image_n[p] = (IF p = 1 THEN 1 ELSE IF p = NPix THEN 2 ELSE 0)

\* C9: under every policy a filled pixel stays filled: no update resets a
\* non-zero image number to 0.
FilledStaysFilled ==
    [][ \A p \in Pixels : image_n[p] # 0 => image_n'[p] # 0 ]_vars

FilledStaysFilledWitness ==
    /\ n = 3
    /\ \E p \in Pixels : image_n[p] = 1 /\ masks[2][p] = 9 /\ masks[3][p] = 0
    /\ \E p \in Pixels : image_n[p] = 3 /\ Good(masks[1][p])

\* C10: generateSCLArray on an empty scene list returns an all-zero
\* classification mosaic and an all-zero provenance map, and does not raise.
EmptySceneListReturnsZeros ==
    scenes = <<>> /\ pc \notin {"idle", "loop"} =>
        pc = "returned" /\ scl_out = Zeros /\ image_n = Zeros

\* ========================================================= band compositor
\* ---------------------------------------------------------- _getImageOrder
\* tile_count: the number of pixels of img numbered k.
tile_count(img, k) == Cardinality({ p \in DOMAIN img : img[p] = k })

\* tile_total: the pixels of all the scenes of the tile of scene k.
RECURSIVE sumCounts(_, _, _)
sumCounts(list, img, ks) ==
    IF ks = {} THEN 0
    ELSE LET k == CHOOSE x \in ks : TRUE
         IN  tile_count(img, k) + sumCounts(list, img, ks \ {k})

tile_total(list, img, k) ==
    sumCounts(list, img,
              { j \in 1..Len(list) : sceneTile(list[j]) = sceneTile(list[k]) })

\* ref_scene: the first scene of the list whose tile holds the most pixels.
ref_scene(list, img) ==
    LET most == Max({ tile_total(list, img, k) : k \in 1..Len(list) })
    IN  list[Min({ k \in 1..Len(list) : tile_total(list, img, k) = most })]

\* _getCentre(scene, ref_scene): the two corners of scene.extent are put
\* through the transformation that leads from the system of ref_scene to
\* the system of scene, and the centre is taken between them.  Under a
\* translation that is the centre of the footprint, translated.
getCentre(s, ref) ==
    LET c == sceneCentre(s)
        t == TransformPoint(sceneEPSG(ref), sceneEPSG(s), c.x, c.y)
    IN  [x |-> t[1], y |-> t[2]]

\* tile_dist: the distance between the centres of scene k and the reference
\* scene.  The model keeps the square of the distance, which orders the
\* scenes as the distance does.
tile_dist(list, img, k) ==
    LET c == getCentre(list[k], ref_scene(list, img))
        r == getCentre(ref_scene(list, img), ref_scene(list, img))
    IN  (c.y - r.y) * (c.y - r.y) + (c.x - r.x) * (c.x - r.x)

\* np.lexsort((c, t, d)): the indices in ascending order of d, then t, then
\* c, equal keys keeping their order.
lexsortKeys(c, t, d) ==
    LET before(i, j) ==
            \/ d[i] < d[j]
            \/ d[i] = d[j] /\ t[i] < t[j]
            \/ d[i] = d[j] /\ t[i] = t[j] /\ c[i] < c[j]
            \/ d[i] = d[j] /\ t[i] = t[j] /\ c[i] = c[j] /\ i < j
        rank(i) == Cardinality({ j \in DOMAIN d : before(j, i) }) + 1
    IN  [r \in DOMAIN d |-> CHOOSE i \in DOMAIN d : rank(i) = r]

\* np.lexsort((tile_count, tile_name, tile_dist*-1)).  The three arrays
\* are computed once, as the code computes them, then sorted.
lexsort(list, img) ==
    CHOOSE ix \in
        { lexsortKeys(key.tile_count, key.tile_name, key.tile_dist) :
            key \in { [tile_count |-> [k \in 1..Len(list) |-> tile_count(img, k)],
                       tile_name |-> [k \in 1..Len(list) |-> sceneTile(list[k])],
                       tile_dist |-> [k \in 1..Len(list) |->
                                         0 - tile_dist(list, img, k)]] } } :
        TRUE

\* [::-1]
reversed(seq) == [i \in 1..Len(seq) |-> seq[Len(seq) + 1 - i]]

\* The order without the exclusion: every scene of the list.
contributing_all(seq, img) == seq

\* tile_number[tile_count[tile_number-1] > 0]
RECURSIVE contributing(_, _)
contributing(seq, img) ==
    IF seq = <<>> THEN <<>>
    ELSE (IF tile_count(img, Head(seq)) > 0 THEN <<Head(seq)>> ELSE <<>>)
         \o contributing(Tail(seq), img)

\* _getImageOrder(scenes, image_n), for an image_n with a filled pixel.
getImageOrder(list, img) == contributing(reversed(lexsort(list, img)), img)

\* Line 321 indexes the transposed list of (count, num) pairs, which is
\* empty when image_n has no filled pixel: IndexError.
getImageOrderRaises(img) == \A p \in DOMAIN img : img[p] = 0

\* ========================================================= histogram_match
\* The quantiles and the interpolated values are kept as exact fractions
\* [num, den] in lowest terms where the code holds float64.
RECURSIVE gcd(_, _)
gcd(a, b) == IF b = 0 THEN a ELSE gcd(b, a % b)
fraction(num, den) ==
    [num |-> num \div gcd(num, den), den |-> den \div gcd(num, den)]
less(a, b) == a.num * b.den < b.num * a.den

\* np.unique(a, return_counts = True): the values ascending, and how often
\* each stands in the array.
values(a) == unique({ a[i] : i \in DOMAIN a })
countsOf(a) ==
    [k \in DOMAIN values(a) |->
        Cardinality({ i \in DOMAIN a : a[i] = values(a)[k] })]
\* return_inverse: the place of each element among the values.
inverse(a) ==
    [i \in DOMAIN a |-> CHOOSE k \in DOMAIN values(a) : values(a)[k] = a[i]]

\* np.cumsum
RECURSIVE cumsum(_)
cumsum(c) ==
    IF c = <<>> THEN <<>>
    ELSE LET front == cumsum(SubSeq(c, 1, Len(c) - 1))
         IN  Append(front, (IF front = <<>> THEN 0 ELSE front[Len(front)])
                           + c[Len(c)])

\* np.cumsum(counts).astype(np.float64) / size
quantiles(c, size) == [k \in DOMAIN c |-> fraction(cumsum(c)[k], size)]

\* Interpolation that takes the value of the knot above.
interp_knotAbove(x, xp, fp) ==
    IF ~less(x, xp[Len(xp)]) THEN fraction(fp[Len(fp)], 1)
    ELSE IF less(x, xp[1]) THEN fraction(fp[1], 1)
    ELSE LET j == CHOOSE k \in 1..(Len(xp) - 1) :
                      ~less(x, xp[k]) /\ less(x, xp[k + 1])
         IN  fraction(fp[j + 1], 1)

\* np.interp(x, xp, fp) at one x: fp[1] below the first knot, the last fp
\* from the last knot on, and between two knots the point of the line
\* through them.
interp(x, xp, fp) ==
    IF ~less(x, xp[Len(xp)]) THEN fraction(fp[Len(fp)], 1)
    ELSE IF less(x, xp[1]) THEN fraction(fp[1], 1)
    ELSE LET j == CHOOSE k \in 1..(Len(xp) - 1) :
                      ~less(x, xp[k]) /\ less(x, xp[k + 1])
             \* (x - xp[j]) and (xp[j+1] - xp[j]) over the common
             \* denominator x.den * xp[j].den * xp[j+1].den
             dx == (x.num * xp[j].den - xp[j].num * x.den) * xp[j + 1].den
             dxp == (xp[j + 1].num * xp[j].den - xp[j].num * xp[j + 1].den)
                    * x.den
         IN  fraction(fp[j] * dxp + dx * (fp[j + 1] - fp[j]), dxp)

\* histogram_match(source, reference)
histogram_match(src, ref) ==
    LET s_values == values(src)
        s_idx == inverse(src)
        s_quantiles == quantiles(countsOf(src), Len(src))
        r_values == values(ref)
        r_quantiles == quantiles(countsOf(ref), Len(ref))
        interp_r_values ==
            [k \in DOMAIN s_values |->
                interp(s_quantiles[k], r_quantiles, r_values)]
    IN  [i \in DOMAIN src |-> interp_r_values[s_idx[i]]]

\* Where np.interp computes slope * (x - xp[j]) + fp[j] with x strictly
\* inside a segment, the float64 it returns can lie a rounding error off
\* the exact value; at a knot, and outside the knots, it is exact.
interpolated(x, xp) ==
    /\ less(xp[1], x)
    /\ less(x, xp[Len(xp)])
    /\ \A k \in DOMAIN xp : xp[k] # x

\* np.ma.is_masked(source): some element is masked.
is_masked(mask) == \E i \in DOMAIN mask : mask[i]

\* source.compressed(): the elements that are not masked, in their order.
RECURSIVE compressed(_, _)
compressed(src, mask) ==
    IF src = <<>> THEN <<>>
    ELSE IF Head(mask) THEN compressed(Tail(src), Tail(mask))
    ELSE <<Head(src)>> \o compressed(Tail(src), Tail(mask))

\* source.fill_value of a masked array of dtype uint16: the default of the
\* integer types, 999999, held in 16 bits.
fill_value == 999999 % UInt16

\* histogram_match(source, reference) where source is a masked array of
\* data src and mask mask.  np.unique of a masked array sorts the masked
\* elements behind all others and returns them as one masked value, the
\* last one: mask_index is its place, s_idx sends every masked position
\* to it, and the fill value is inserted there among the interpolated
\* values.  The array returned is masked where s_idx names that place.
histogram_match_masked(src, mask, ref) ==
    IF ~is_masked(mask)
    THEN [data |-> histogram_match(src, ref), mask |-> mask,
          interpolated |->
              [i \in DOMAIN src |->
                  interpolated(
                      quantiles(countsOf(src), Len(src))[inverse(src)[i]],
                      quantiles(countsOf(ref), Len(ref)))]]
    ELSE LET s_values == values(compressed(src, mask))
             mask_index == Len(s_values) + 1
             s_idx == [i \in DOMAIN src |->
                          IF mask[i] THEN mask_index
                          ELSE CHOOSE k \in DOMAIN s_values :
                                   s_values[k] = src[i]]
             s_size == Cardinality({ i \in DOMAIN src :
                                       s_idx[i] # mask_index })
             s_counts == countsOf(compressed(src, mask))
             s_quantiles == quantiles(s_counts, s_size)
             r_values == values(ref)
             r_quantiles == quantiles(countsOf(ref), Len(ref))
             interp_r_values ==
                 [k \in 1..mask_index |->
                     IF k = mask_index THEN fraction(fill_value, 1)
                     ELSE interp(s_quantiles[k], r_quantiles, r_values)]
         IN  [data |-> [i \in DOMAIN src |-> interp_r_values[s_idx[i]]],
              mask |-> [i \in DOMAIN src |-> s_idx[i] = mask_index],
              interpolated |->
                  [i \in DOMAIN src |->
                      /\ s_idx[i] # mask_index
                      /\ interpolated(s_quantiles[s_idx[i]], r_quantiles)]]

\* --------------------------------------------------------- _updateBandArray
\* The selection left commented out at line 179, without its mask test:
\* empty pixels of the output are filled too.
updateBandArray_fillsEmpty(data, data_resampled, img, num) ==
    [p \in Pixels |-> IF img[p] = num \/ data[p] = 0
                      THEN data_resampled[p] ELSE data[p]]

\* _updateBandArray(data_out, data_resampled, image_n, n, scl_resampled)
updateBandArray(data, data_resampled, img, num) ==
    [p \in Pixels |-> IF img[p] = num THEN data_resampled[p] ELSE data[p]]

\* ----------------------------------------------------------- colour balance
\* np.sum over the pixels of S.
RECURSIVE sum(_, _)
sum(a, S) ==
    IF S = {} THEN 0
    ELSE LET p == CHOOSE x \in S : TRUE
         IN  a[p] + sum(a, S \ {p})

\* overlap: the pixels that are not masked in data_resampled_ma, the good
\* pixels of the scene, and filled in data_out.
overlap(data, scl_resampled) ==
    { p \in Pixels : Good(scl_resampled[p]) /\ data[p] # 0 }

\* this_overlap: the overlapping pixels as a fraction of the good pixels
\* of the scene (which has at least one).
this_overlap(data, scl_resampled) ==
    fraction(Cardinality(overlap(data, scl_resampled)),
             Cardinality(good_px(scl_resampled)))

\* Gain compensation in both modes that balance colours.
correction_gainInBasic(cb, data, scl_resampled) ==
    IF cb = "none" \/ \A p \in Pixels : data[p] = 0 THEN "none"
    ELSE IF good_px(scl_resampled) = {} THEN "raise"
    ELSE IF /\ less(fraction(2, 100), this_overlap(data, scl_resampled))
            /\ ~less(fraction(1, 2), this_overlap(data, scl_resampled))
         THEN "scaling"
    ELSE IF less(fraction(1, 2), this_overlap(data, scl_resampled))
         THEN "matching"
    ELSE "adding"

\* The branch generateBandArray takes for one scene: "none" where colour
\* balancing is off or data_out.sum() is 0, otherwise the branch its
\* verbose output names, 'scaling', 'matching' or 'adding'.  The division
\* of line 401 raises ZeroDivisionError for a scene without a good pixel.
correction(cb, data, scl_resampled) ==
    IF cb = "none" \/ \A p \in Pixels : data[p] = 0 THEN "none"
    ELSE IF good_px(scl_resampled) = {} THEN "raise"
    ELSE IF /\ less(fraction(2, 100), this_overlap(data, scl_resampled))
            /\ ~less(fraction(1, 2), this_overlap(data, scl_resampled))
            /\ cb = "aggressive"
         THEN "scaling"
    ELSE IF less(fraction(1, 2), this_overlap(data, scl_resampled))
         THEN "matching"
    ELSE "adding"

\* The arrays that hold at every pixel one of the values of cand, and the
\* same value at any two pixels of S where src holds the same value.
choices(cand, src, S) ==
    IF \A p \in Pixels : Cardinality(cand[p]) = 1
    THEN { [p \in Pixels |-> CHOOSE v \in cand[p] : TRUE] }
    ELSE { r \in [Pixels -> UNION { cand[p] : p \in Pixels }] :
             /\ \A p \in Pixels : r[p] \in cand[p]
             /\ \A p, q \in S : src[p] = src[q] => r[p] = r[q] }

\* np.round(x, 0) of x = num / den: the nearest whole number.  Half way
\* between two whole numbers the float64 product of the code can fall on
\* either side, so both are kept.
rounded(num, den) ==
    IF 2 * (num % den) < den THEN {num \div den}
    ELSE IF 2 * (num % den) > den THEN {num \div den + 1}
    ELSE {num \div den, num \div den + 1}

\* sel: the pixels gain compensation scales.
sel_allGood(scl_resampled) == good_px(scl_resampled)

sel(scl_resampled) ==
    { p \in Pixels : Good(scl_resampled[p]) /\ scl_resampled[p] # 6 }

\* Gain compensation, lines 407 to 413: the arrays data_resampled can hold
\* afterwards.  The two means are taken over the same pixels, so their
\* ratio is the ratio of the two sums.  Where the scene is 0 all over the
\* overlap the ratio is infinite and the cast to uint16 of the product is
\* undefined: 0 or the largest value.
gain(data, data_resampled, scl_resampled) ==
    UNION {
        choices([p \in Pixels |->
                    IF p \notin sel(scl_resampled) THEN {data_resampled[p]}
                    ELSE IF m.this_intensity = 0 THEN {0, UInt16 - 1}
                    ELSE { v % UInt16 :
                             v \in rounded(data_resampled[p] * m.ref_intensity,
                                           m.this_intensity) }],
                data_resampled, sel(scl_resampled)) :
        m \in { [this_intensity |->
                    sum(data_resampled, overlap(data, scl_resampled)),
                 ref_intensity |->
                    sum(data, overlap(data, scl_resampled))] } }

\* Histogram matching, line 419, and the cast to uint16 of line 183: the
\* arrays of whole numbers that data_out can be written from.  The cast
\* drops the fraction; a value interpolated to a whole number can come out
\* of the float64 arithmetic just below it and then loses one.
matched(data, data_resampled, scl_resampled) ==
    UNION {
        choices([p \in Pixels |->
                    IF t.data[p].den = 1 /\ t.interpolated[p]
                    THEN {(t.data[p].num - 1) % UInt16,
                          t.data[p].num % UInt16}
                    ELSE {(t.data[p].num \div t.data[p].den) % UInt16}],
                data_resampled, good_px(scl_resampled)) :
        t \in { histogram_match_masked(
                    data_resampled,
                    [p \in Pixels |-> ~Good(scl_resampled[p])],
                    compressed(data, [p \in Pixels |-> data[p] = 0])) } }

\* data_resampled as _updateBandArray writes it, after the branch taken.
balanced(cb, data, data_resampled, scl_resampled) ==
    IF correction(cb, data, scl_resampled) = "scaling"
    THEN gain(data, data_resampled, scl_resampled)
    ELSE IF correction(cb, data, scl_resampled) = "matching"
    THEN matched(data, data_resampled, scl_resampled)
    ELSE {data_resampled}

\* ------------------------------------------------------------------ loadMask
\* What improveMask can make of one pixel of a scene whose classes are
\* those of Codes.  A pixel without data stays without data.  A pixel
\* within 180 m of a cloud becomes cloud, and a pixel within 600 m of a
\* pixel without data is set to 0.  A cloud keeps its class under the
\* dilation.
improvedCodes(c) ==
    IF c = 0 THEN {0} ELSE IF Good(c) THEN {c, 9, 0} ELSE {c, 0}

\* The masks loadMask returns with correct = True for a scene whose mask it
\* returns as m with correct = False.  improveMask works pixel by pixel on
\* the neighbourhood in the scene, which the destination grid does not
\* show: every pixel fares on its own.
improvedMasks(m) ==
    { r \in [Pixels -> Codes] :
          \A p \in Pixels : r[p] \in improvedCodes(m[p]) }

\* loadMask(scenes[k-1], md_dest, correct): the reprojected mask of a scene
\* generateSCLArray has loaded, fixed by the file on disk.  Loaded again
\* the way generateSCLArray loaded it, it comes out the same.
loadMask(k, correct) ==
    IF correct = correct_mask THEN {masks[k]}
    ELSE IF correct THEN improvedMasks(masks[k])
    ELSE { m \in [Pixels -> Codes] : masks[k] \in improvedMasks(m) }

\* -------------------------------------------------------- generateBandArray
\* The state in which main calls generateBandArray: generateSCLArray has
\* returned scl_out and image_n for a sorted, non-empty scene list.  Every
\* map from pixels to image numbers is the result of some scenes under
\* MOST_RECENT: scene k good exactly where the map says k, cloudy where an
\* earlier scene shows through, and without data elsewhere.
InitBand ==
    /\ algorithm = "MOST_RECENT"
    /\ correct_mask \in BOOLEAN
    /\ \E k \in 1..MaxScenes : scenes = sortScenes([i \in 1..k |-> i])
    /\ image_n \in [Pixels -> 0..Len(scenes)]
    /\ masks = [k \in 1..Len(scenes) |->
                   [p \in Pixels |-> IF image_n[p] = k THEN 4
                                     ELSE IF image_n[p] \in 1..(k - 1) THEN 9
                                     ELSE 0]]
    /\ scl_out = [p \in Pixels |-> IF image_n[p] > 0 THEN 4 ELSE 0]
    /\ n = Len(scenes)
    /\ pc = "returned"
    /\ colour_balance = "none"
    /\ band = "B02"
    /\ order = <<>>
    /\ data_out = createOutputArray
    /\ band_scl = <<>>
    /\ visited = <<>>
    /\ corrections = <<>>
    /\ band_pc = "idle"
    /\ IdleRest

\* The call: create the output array and compute the visitation order.
BandStart ==
    /\ band_pc = "idle"
    /\ \E b \in Bands, cb \in BalanceModes :
        /\ band' = b
        /\ colour_balance' = cb
    /\ data_out' = createOutputArray
    /\ visited' = <<>>
    /\ corrections' = <<>>
    /\ IF getImageOrderRaises(image_n)
       THEN order' = <<>> /\ band_pc' = "raised"
       ELSE order' = getImageOrder(scenes, image_n) /\ band_pc' = "loop"
    /\ UNCHANGED band_scl
    /\ UNCHANGED <<sclVars, restVars>>

\* One iteration of the loop: load the band and the mask of scenes[n-1],
\* balance the colours, and write the band where image_n names the scene.
\* (1-based sequences: scenes[num].)  The mask is loaded with correct =
\* True, whatever generateSCLArray was told.  The division of line 401
\* raises ZeroDivisionError for a scene without a good pixel.  Of a scene
\* that is good at every pixel histogram_match returns a plain ndarray,
\* whose .data is a buffer: indexing it at line 183 raises TypeError.
BandStep ==
    /\ band_pc = "loop"
    /\ order # <<>>
    /\ \E loaded_mask \in loadMask(Head(order), TRUE) :
        LET num == Head(order)
            data_resampled == loadBand(scenes[num], band)
            taken == correction(colour_balance, data_out, loaded_mask)
        IN  /\ band_scl' = loaded_mask
            /\ IF taken = "raise"
               THEN /\ band_pc' = "raised"
                    /\ UNCHANGED <<order, data_out, visited, corrections>>
               ELSE IF taken = "matching" /\ good_px(loaded_mask) = Pixels
               THEN /\ band_pc' = "raised"
                    /\ corrections' = Append(corrections, taken)
                    /\ UNCHANGED <<order, data_out, visited>>
               ELSE /\ \E corrected \in balanced(colour_balance, data_out,
                                                  data_resampled,
                                                  loaded_mask) :
                           data_out' = updateBandArray(data_out, corrected,
                                                       image_n, num)
                    /\ order' = Tail(order)
                    /\ visited' = Append(visited, num)
                    /\ corrections' = Append(corrections, taken)
                    /\ UNCHANGED band_pc
    /\ UNCHANGED <<colour_balance, band>>
    /\ UNCHANGED <<sclVars, restVars>>

\* After the loop: the raster is written and returned.
BandFinish ==
    /\ band_pc = "loop"
    /\ order = <<>>
    /\ band_pc' = "returned"
    /\ UNCHANGED <<colour_balance, band, order, data_out, band_scl,
                   visited, corrections>>
    /\ UNCHANGED <<sclVars, restVars>>

NextBand == BandStart \/ BandStep \/ BandFinish

SpecBand == InitBand /\ [][NextBand]_vars

\* The band values of a raster follow image_n: at every pixel numbered
\* k > 0 the reprojected band value of scenes[k-1], and 0 at every pixel
\* numbered 0.
followsProvenance(data) ==
    \A p \in Pixels :
        data[p] = IF image_n[p] > 0
                  THEN loadBand(scenes[image_n[p]], band)[p]
                  ELSE 0

\* C3: with colour_balance = 'none' generateBandArray returns an array
\* that holds, at every pixel numbered k > 0, the reprojected band value of
\* scenes[k-1], and 0 at every pixel numbered 0, in whatever order the
\* scenes were visited.
BandArrayReturnedFollowsProvenance ==
    band_pc \in {"returned", "raised"} /\ colour_balance = "none" =>
        band_pc = "returned" /\ followsProvenance(data_out)

\* What holds of the code: every array that is returned follows image_n.
BandFidelity ==
    band_pc = "returned" /\ colour_balance = "none" =>
        followsProvenance(data_out)

\* Two scenes contribute, visited in an order that is not the list order,
\* and one pixel is unfilled.
BandFidelityWitness ==
    /\ band_pc = "returned" /\ colour_balance = "none"
    /\ \E p, q, r \in Pixels :
        /\ image_n[p] = 0
        /\ image_n[q] > 0 /\ image_n[r] > 0 /\ image_n[q] # image_n[r]
        /\ loadBand(scenes[image_n[q]], band)[p] # 0
    /\ getImageOrder(scenes, image_n)[1] > 1

\* C22: the order _getImageOrder returns holds every image number that
\* owns a pixel of image_n exactly once and no other number, and when
\* generateBandArray returns, its loop has visited the scene of every
\* filled pixel exactly once and no scene without a pixel.
EveryContributorOnce ==
    /\ band_pc = "loop" =>
        \A k \in 1..Len(scenes) :
            occurrences(visited \o order, k)
                = IF \E p \in Pixels : image_n[p] = k THEN 1 ELSE 0
    /\ band_pc = "returned" =>
        /\ \A p \in Pixels :
               image_n[p] # 0 => occurrences(visited, image_n[p]) = 1
        /\ \A i \in DOMAIN visited :
               \E p \in Pixels : image_n[p] = visited[i]

\* Three scenes were handed over, one of them without a pixel of image_n,
\* and the loop visited the other two, the later of the list first.
EveryContributorOnceWitness ==
    /\ band_pc = "returned"
    /\ Len(scenes) = 3
    /\ Len(visited) = 2
    /\ visited[1] > visited[2]

\* ==================================================================== main
\* Largest number of source files handed to main.
MaxFiles == 2

\* _getBands: the bands of one resolution.
bandsOf(r) ==
    IF r = 60 THEN {"B01", "B02", "B03", "B04", "B05", "B06", "B07", "B8A",
                    "B09", "B11", "B12"}
    ELSE IF r = 20 THEN {"B02", "B03", "B04", "B05", "B06", "B07", "B8A",
                         "B11", "B12"}
    ELSE IF r = 10 THEN {"B02", "B03", "B04", "B08"}
    ELSE {}

\* np.unique(res_list)[::-1]: the resolutions of the call, coarsest first.
resolutionsOf(resolution) ==
    IF resolution = 0 THEN <<60, 20, 10>> ELSE <<resolution>>

\* The arguments main can be called with.  source_files and extent_dest are
\* given by their length; correct_mask by its printed value, "None" being
\* a value whose type is not bool.
MainArgs ==
    [source_files : 0..MaxFiles,
     extent_dest : {3, 4},
     resolution : {0, 10, 20, 30, 60},
     colour_balance : {"none", "basic", "aggressive", "other"},
     correct_mask : {"True", "False", "None"},
     algorithm : AlgorithmInputs]

\* The five assertions at the head of main.
assertions(a) ==
    /\ a.extent_dest = 4
    /\ a.source_files >= 1
    /\ a.resolution \in {0, 10, 20, 60}
    /\ a.colour_balance \in {"none", "basic", "aggressive"}
    /\ a.correct_mask \in {"True", "False"}

\* The loop goes on without the resolution it skipped.
continue_breaks(rl) == <<>>

\* continue: the loop goes on with the resolutions after this one.
continue(rl) == Tail(rl)

\* The rasters generateSCLArray writes at one resolution.
sclFiles(r) == {<<r, "SCL">>, <<r, "imageN">>}

\* band_list[res_list == res]: the bands of one resolution, in the order
\* _getBands lists them.
bandList(r) ==
    IF r = 60 THEN <<"B01", "B02", "B03", "B04", "B05", "B06", "B07", "B8A",
                     "B09", "B11", "B12">>
    ELSE IF r = 20 THEN <<"B02", "B03", "B04", "B05", "B06", "B07", "B8A",
                          "B11", "B12">>
    ELSE IF r = 10 THEN <<"B02", "B03", "B04", "B08">>
    ELSE <<>>

\* The two .vrt files buildVRT writes for one resolution.
vrtFiles(r) == {<<r, "RGB.vrt">>, <<r, "NIR.vrt">>}

\* The call: the assertions, then the list of resolutions.
MainStart ==
    /\ main_pc = "idle"
    /\ \E a \in MainArgs :
        /\ main_args' = a
        /\ IF assertions(a)
           THEN main_pc' = "loop" /\ res_list' = resolutionsOf(a.resolution)
           ELSE main_pc' = "raised" /\ res_list' = <<>>
    /\ UNCHANGED <<band_list, in_tile, loaded, masks_read, written>>
    /\ UNCHANGED outsideMain

\* Head of one iteration: LoadScene for every source file, the destination
\* Metadata, and getSourceFilesInTile, which keeps any number of the scenes.
MainSelect ==
    /\ main_pc = "loop"
    /\ res_list # <<>>
    /\ loaded' = loaded \cup {Head(res_list)}
    /\ \E k \in 0..main_args.source_files : in_tile' = k
    /\ main_pc' = "selected"
    /\ UNCHANGED <<main_args, res_list, band_list, masks_read, written>>
    /\ UNCHANGED outsideMain

\* No scene inside the tile: a message is printed and the loop continues.
MainSkip ==
    /\ main_pc = "selected"
    /\ in_tile = 0
    /\ res_list' = continue(res_list)
    /\ main_pc' = "loop"
    /\ UNCHANGED <<main_args, band_list, in_tile, loaded, masks_read, written>>
    /\ UNCHANGED outsideMain

\* sortScenes and generateSCLArray: the mask of the first scene is loaded,
\* then _updateMaskArrays asserts the algorithm; with a known algorithm the
\* loop runs to its end and the two rasters are written.
MainSCL ==
    /\ main_pc = "selected"
    /\ in_tile > 0
    /\ masks_read' = masks_read \cup {Head(res_list)}
    /\ IF main_args.algorithm \in Algorithms
       THEN /\ written' = written \cup sclFiles(Head(res_list))
            /\ band_list' = bandList(Head(res_list))
            /\ main_pc' = "masked"
       ELSE /\ written' = written
            /\ main_pc' = "raised"
            /\ UNCHANGED band_list
    /\ UNCHANGED <<main_args, res_list, in_tile, loaded>>
    /\ UNCHANGED outsideMain

\* generateBandArray for one band: the raster of the band is written, or
\* the call raises and main with it.  Where image_n names no scene,
\* _getImageOrder raises at the first band; with colour balancing a call
\* can raise for any band, at the division of line 401 or at line 183
\* after histogram matching, depending on the values of the band.  The
\* rasters of the bands before it stay written.
MainBand ==
    /\ main_pc = "masked"
    /\ band_list # <<>>
    /\ \/ /\ written' = written \cup {<<Head(res_list), Head(band_list)>>}
          /\ band_list' = Tail(band_list)
          /\ UNCHANGED main_pc
       \/ /\ \/ band_list = bandList(Head(res_list))
             \/ main_args.colour_balance # "none"
          /\ main_pc' = "raised"
          /\ UNCHANGED <<written, band_list>>
    /\ UNCHANGED <<main_args, res_list, in_tile, loaded, masks_read>>
    /\ UNCHANGED outsideMain

\* After the last band: buildVRT writes the two .vrt files, and the loop
\* goes on with the next resolution.
MainVRT ==
    /\ main_pc = "masked"
    /\ band_list = <<>>
    /\ written' = written \cup vrtFiles(Head(res_list))
    /\ res_list' = Tail(res_list)
    /\ main_pc' = "loop"
    /\ UNCHANGED <<main_args, band_list, in_tile, loaded, masks_read>>
    /\ UNCHANGED outsideMain

\* After the last resolution: 'Processing complete!'
MainFinish ==
    /\ main_pc = "loop"
    /\ res_list = <<>>
    /\ main_pc' = "done"
    /\ UNCHANGED <<main_args, res_list, band_list, in_tile, loaded, masks_read,
                   written>>
    /\ UNCHANGED outsideMain

NextMain ==
    \/ MainStart \/ MainSelect \/ MainSkip \/ MainSCL
    \/ MainBand \/ MainVRT \/ MainFinish

InitMain == Init

SpecMain == InitMain /\ [][NextMain]_vars

\* C11: main called with an algorithm outside the three policies fails, and
\* fails before any scene is loaded, any mask is read or reprojected, or
\* any output is written, whether or not a scene overlaps the tile.
UnknownAlgorithmFailsFast ==
    main_pc # "idle" /\ main_args.algorithm \notin Algorithms =>
        /\ main_pc = "raised"
        /\ loaded = {}
        /\ masks_read = {}
        /\ written = {}

\* The resolutions of the call that main has not yet reached.
remaining == { r \in {10, 20, 60} :
                 /\ \E i \in DOMAIN resolutionsOf(main_args.resolution) :
                        resolutionsOf(main_args.resolution)[i] = r
                 /\ r \notin loaded }

\* C12: when no scene overlaps the tile and date window at a resolution,
\* main raises no error, writes nothing for that resolution, and goes on
\* with every resolution of its list it has not yet reached.
EmptyTileIsSkipped ==
    [][main_pc = "selected" /\ in_tile = 0 =>
          /\ main_pc' = "loop"
          /\ written' = written
          /\ \A f \in written : f[1] \notin remaining \cup {Head(res_list)}
          /\ {res_list'[i] : i \in DOMAIN res_list'} = remaining]_vars

\* main finished after skipping one resolution and compositing another.
EmptyTileIsSkippedWitness ==
    /\ main_pc = "done"
    /\ written # {}
    /\ \E r \in loaded : \A f \in written : f[1] # r

\* ===================================================== getSourceFilesInTile
\* Coordinates are in units of one pixel (res = 1).  The scenes and the
\* destination lie in the two UTM zones of EPSGs.

\* datetime.datetime: a day and the time of day, 0 being midnight.
strptime(day) == [day |-> day, time |-> 0]
later(a, b) == a.day > b.day \/ (a.day = b.day /\ a.time > b.time)

\* LoadScene(filename): its Metadata and its acquisition time.
LoadScene(extent, EPSG, day, time) ==
    [metadata |-> Metadata(extent, 1, EPSG),
     datetime |-> [day |-> day, time |-> time]]

\* The destination grids: x and y from 4 to 6, or x up to 7, in zone 36.
DestGrids == { Metadata(<<4, 4, 6, 6>>, 1, 32736),
               Metadata(<<4, 4, 7, 6>>, 1, 32736) }

\* The date windows: two days, or one day.
Windows == { [start |-> 2, end |-> 3], [start |-> 2, end |-> 2] }

\* The scenes of the model.  First, scenes acquired at midnight of the
\* start day that lie about the destination in every way: across it,
\* equal to the smaller grid, along each of its four edges, at a corner,
\* apart from it; and in zone 37 one that lies across the destination and
\* one whose untransformed coordinates do.  Second, scenes across the
\* destination acquired on the days 1 to 4, at midnight or later in the day.
SceneCases ==
    { LoadScene(e, 32736, 2, 0) :
        e \in { <<5, 5, 7, 7>>, <<4, 4, 6, 6>>, <<2, 4, 4, 6>>, <<7, 4, 9, 6>>,
                <<4, 6, 6, 8>>, <<4, 2, 6, 4>>, <<7, 6, 9, 8>>, <<8, 4, 9, 6>> } }
    \cup { LoadScene(e, 32737, 2, 0) : e \in { <<1, 5, 3, 7>>, <<4, 4, 6, 6>> } }
    \cup { LoadScene(<<5, 5, 7, 7>>, 32736, d, t) : d \in 1..4, t \in 0..1 }

\* The scene lists handed to the selector.
SelectorInputs == UNION { [1..k -> SceneCases] : k \in 0..MaxFiles }

\* The four-way test with the edges left out: touching rectangles overlap.
outOfTile_touchingKept(md_source, md) ==
    \/ md_source.ulx > md.lrx
    \/ md_source.lrx < md.ulx
    \/ md_source.uly < md.lry
    \/ md_source.lry > md.uly

\* The four-way test of testOutsideTile.
outOfTile(md_source, md) ==
    \/ md_source.ulx >= md.lrx
    \/ md_source.lrx <= md.ulx
    \/ md_source.uly <= md.lry
    \/ md_source.lry >= md.uly

\* testOutsideTile: the two corners of the scene are transformed and
\* assigned to the scene's Metadata, then compared with the destination.
\* The Metadata as the test leaves it:
transformed(md_source, md) ==
    LET ul == TransformPoint(md_source.EPSG_code, md.EPSG_code,
                             md_source.ulx, md_source.uly)
        lr == TransformPoint(md_source.EPSG_code, md.EPSG_code,
                             md_source.lrx, md_source.lry)
    IN  [md_source EXCEPT !.ulx = ul[1], !.uly = ul[2],
                          !.lrx = lr[1], !.lry = lr[2]]
\* and its result:
testOutsideTile(md_source, md) == outOfTile(transformed(md_source, md), md)

\* testOutsideDate: start and end are parsed to midnight of their day.
testOutsideDate(scene, start, end) ==
    \/ later(scene.datetime, strptime(end))
    \/ later(strptime(start), scene.datetime)

\* do_tile: one flag for each scene, the tile tested before the date.
do_tile(list, md, w) ==
    [i \in 1..Len(list) |->
        /\ ~testOutsideTile(list[i].metadata, md)
        /\ ~testOutsideDate(list[i], w.start, w.end)]

\* np.array(scenes)[np.array(do_tile)]: the positions flagged, in order.
RECURSIVE flagged(_, _)
flagged(flags, i) ==
    IF i > Len(flags) THEN <<>>
    ELSE (IF flags[i] THEN <<i>> ELSE <<>>) \o flagged(flags, i + 1)

\* A call of the selector, on fresh scenes or on the scenes a call left.
\* testOutsideTile runs for every scene.  With no scene, do_tile is an
\* empty list and np.array(do_tile) an array of floats, which numpy
\* refuses as an index (IndexError) from version 1.12 and casts to
\* integers before it: either outcome, by the numpy installed.
Select ==
    /\ sel_pc \in {"idle", "returned"}
    /\ calls < 2
    /\ calls' = calls + 1
    /\ sel_scenes' = [i \in 1..Len(sel_scenes) |->
          [sel_scenes[i] EXCEPT
              !.metadata = transformed(sel_scenes[i].metadata, md_dest)]]
    /\ \E refused \in BOOLEAN :
        IF sel_scenes = <<>> /\ refused
        THEN /\ sel_pc' = "raised"
             /\ UNCHANGED <<scenes_tile, first_tile>>
        ELSE /\ sel_pc' = "returned"
             /\ scenes_tile' = flagged(do_tile(sel_scenes, md_dest, window), 1)
             /\ first_tile' = IF calls = 0 THEN scenes_tile' ELSE first_tile
    /\ UNCHANGED <<fresh, md_dest, window>>
    /\ UNCHANGED outsideSel

\* The scenes as LoadScene made them, any grid, any window.
InitSel ==
    /\ IdleSCL
    /\ IdleBand
    /\ IdleMain /\ IdleSort /\ IdleTasks /\ IdlePre /\ IdleMask /\ IdleHist
    /\ sel_scenes \in SelectorInputs
    /\ fresh = sel_scenes
    /\ md_dest \in DestGrids
    /\ window \in Windows
    /\ scenes_tile = <<>>
    /\ first_tile = <<>>
    /\ calls = 0
    /\ sel_pc = "idle"

NextSel == Select

SpecSel == InitSel /\ [][NextSel]_vars

\* The extent of fresh scene i in the coordinates of the destination.
extentInDest(i) == transformed(fresh[i].metadata, md_dest)
\* Two rectangles share positive area.
shareArea(a, b) ==
    /\ Max({a.ulx, b.ulx}) < Min({a.lrx, b.lrx})
    /\ Max({a.lry, b.lry}) < Min({a.uly, b.uly})
kept(i) == \E j \in DOMAIN scenes_tile : scenes_tile[j] = i
firstReturn == calls = 1 /\ sel_pc = "returned"

\* C13: a scene that overlaps the destination grid is kept exactly when it
\* was acquired in the date window, both ends included: at any time of the
\* start day, of the end day, or of a day between them.
DateWindowInclusive ==
    firstReturn =>
        \A i \in DOMAIN fresh :
            shareArea(extentInDest(i), md_dest) =>
                (kept(i) <=> /\ window.start <= fresh[i].datetime.day
                             /\ fresh[i].datetime.day <= window.end)

\* C14: a scene is rejected on geographic grounds exactly when its
\* transformed extent and the destination are disjoint by the four-way test
\* with >= and <=, so that rectangles touching along an edge are rejected;
\* every scene sharing positive area with the destination is kept (the
\* date allowing), and the scenes kept are in the input order.
DisjointExactlyRejected ==
    firstReturn =>
        /\ \A i \in DOMAIN fresh :
            LET e == extentInDest(i)
                disjoint == \/ e.ulx >= md_dest.lrx \/ e.lrx <= md_dest.ulx
                            \/ e.lry >= md_dest.uly \/ e.uly <= md_dest.lry
            IN  /\ disjoint => ~kept(i)
                /\ disjoint <=> ~shareArea(e, md_dest)
                /\ ~disjoint /\ ~testOutsideDate(fresh[i], window.start,
                                                 window.end) => kept(i)
        /\ \A j, k \in DOMAIN scenes_tile :
            j < k => scenes_tile[j] < scenes_tile[k]

\* Of two scenes in the window, the first touches the destination along an
\* edge and is rejected; the second, from the other zone, lies across the
\* destination once transformed, and is kept.
DisjointExactlyRejectedWitness ==
    /\ firstReturn
    /\ Len(fresh) = 2
    /\ scenes_tile = <<2>>
    /\ fresh[1].metadata.lrx = md_dest.ulx
    /\ fresh[1].datetime = fresh[2].datetime
    /\ fresh[2].metadata.EPSG_code # md_dest.EPSG_code

\* C15: with an empty scene list the selector returns an empty list and
\* raises nothing, whatever the grid and the window.
EmptyListReturnsEmpty ==
    calls > 0 /\ fresh = <<>> => sel_pc = "returned" /\ scenes_tile = <<>>

\* C16: the selector leaves every field of every scene's Metadata and of
\* the destination Metadata as it was, and a second call on the same scene
\* objects returns the same subset.
SelectorLeavesMetadata ==
    /\ calls > 0 =>
        /\ \A i \in DOMAIN fresh : sel_scenes[i].metadata = fresh[i].metadata
        /\ md_dest \in DestGrids
    /\ calls = 2 /\ sel_pc = "returned" => scenes_tile = first_tile

\* ============================================================== sortScenes
\* scenes[dates == date]: the scenes of one date, in list order.
RECURSIVE ofDate(_, _)
ofDate(list, date) ==
    IF list = <<>> THEN <<>>
    ELSE (IF sceneDate(Head(list)) = date THEN <<Head(list)>> ELSE <<>>)
         \o ofDate(Tail(list), date)

\* scenes[dates == date][np.argsort(tiles[dates == date])]
byTile(list) ==
    LET ix == argsort([i \in 1..Len(list) |-> sceneTile(list[i])])
    IN  [k \in 1..Len(list) |-> list[ix[k]]]

RECURSIVE extendByDate(_, _)
extendByDate(list, dates) ==
    IF dates = <<>> THEN <<>>
    ELSE byTile(ofDate(list, Head(dates))) \o extendByDate(list, Tail(dates))

\* sortScenes(scenes, by): by tile then date, by date then tile, and with
\* any other key the empty list scenes_out starts as.
sortScenesBy(list, by) ==
    IF by = "tile" THEN sortScenes(list)
    ELSE IF by = "date"
    THEN extendByDate(list, unique({ sceneDate(list[i]) : i \in 1..Len(list) }))
    ELSE <<>>

\* The lists handed to sortScenes: scenes of the pool in any order, a scene
\* possibly more than once.
SortInputs == UNION { [1..k -> 1..MaxScenes] : k \in 0..MaxScenes }

InitSort ==
    /\ IdleSCL
    /\ IdleBand
    /\ IdleMain /\ IdleSel /\ IdleTasks /\ IdlePre /\ IdleMask /\ IdleHist
    /\ sort_in \in SortInputs
    /\ sort_by \in {"tile", "date", "name"}
    /\ sort_out = <<>>
    /\ sort_pc = "idle"

\* A call of sortScenes(sort_in, by = sort_by).
SortScenes ==
    /\ sort_pc = "idle"
    /\ sort_out' = sortScenesBy(sort_in, sort_by)
    /\ sort_pc' = "returned"
    /\ UNCHANGED <<sort_in, sort_by>>
    /\ UNCHANGED sclVars
    /\ UNCHANGED outsideSort

\* A call of generateSCLArray(sort_in): the scenes are sorted with the
\* default key and the two arrays created; the loop then enumerates scenes.
SCLSort ==
    /\ pc = "idle"
    /\ sort_pc = "idle"
    /\ sort_by = "tile"
    /\ sort_out' = sortScenesBy(sort_in, "tile")
    /\ sort_pc' = "returned"
    /\ scenes' = sort_out'
    /\ \E alg \in AlgorithmInputs : algorithm' = alg
    /\ \E correct \in BOOLEAN : correct_mask' = correct
    /\ scl_out' = createOutputArray
    /\ image_n' = createOutputArray
    /\ masks' = <<>>
    /\ n' = 0
    /\ pc' = "loop"
    /\ UNCHANGED <<sort_in, sort_by>>
    /\ UNCHANGED outsideSort

NextSort == SortScenes \/ SCLSort

SpecSort == InitSort /\ [][NextSort]_vars

\* C17: sortScenes(by = 'tile') returns a permutation of its input, the
\* scenes grouped by tile in ascending order and, within a tile, in
\* ascending order of acquisition time; generateSCLArray enumerates the
\* scenes in this order.
SortedByTileThenDate ==
    sort_pc = "returned" /\ sort_by = "tile" =>
        /\ Len(sort_out) = Len(sort_in)
        /\ \A s \in 1..MaxScenes :
            occurrences(sort_out, s) = occurrences(sort_in, s)
        /\ \A j, k \in DOMAIN sort_out :
            j < k =>
                \/ sceneTile(sort_out[j]) < sceneTile(sort_out[k])
                \/ /\ sceneTile(sort_out[j]) = sceneTile(sort_out[k])
                   /\ sceneDate(sort_out[j]) <= sceneDate(sort_out[k])
        /\ pc = "loop" => scenes = sort_out

\* generateSCLArray was handed three different scenes of two tiles, the
\* two scenes of one tile apart and the later one first.
SortedByTileThenDateWitness ==
    /\ sort_pc = "returned" /\ sort_by = "tile" /\ pc = "loop"
    /\ Len(sort_in) = 3
    /\ sceneTile(sort_in[1]) = sceneTile(sort_in[3])
    /\ sceneTile(sort_in[1]) # sceneTile(sort_in[2])
    /\ sceneDate(sort_in[1]) > sceneDate(sort_in[3])

\* ================================================= bands composited together
\* generateBandArray is called once for each band, the calls running side
\* by side against the same scenes, the same image_n and the same colour
\* balancing mode.  Each call has its own data_out (created at its first
\* line), its own data_resampled and scl_resampled (loaded afresh from the
\* files of the scene at every iteration) and its own place in its own
\* visitation order; a step of a call is one iteration of its loop.

\* One output array that every call writes to.
writeBand_sharedArray(ts, b, out) ==
    [c \in Bands |-> [ts[c] EXCEPT !.data_out = out]]

\* data_out = _updateBandArray(data_out, ...): the array of this call.
writeBand(ts, b, out) == [ts EXCEPT ![b].data_out = out]

\* The loop of generateSCLArray over the masks ms from the k-th on.
RECURSIVE composite(_, _, _, _)
composite(ms, alg, k, acc) ==
    IF k > Len(ms) THEN acc
    ELSE composite(ms, alg, k + 1,
                   updateMaskArrays(acc.scl_out, ms[k], acc.image_n,
                                    imageNumber(k - 1), alg))

\* The masks of the scenes the calls composite: usable or cloud at every
\* pixel.  The first scene of a list of more than two is usable all over,
\* and the second scene of a list of more than three contributes nothing:
\* it is cloud all over.
TaskMasks(len) ==
    { ms \in [1..len -> [Pixels -> {4, 9}]] :
        /\ len > 2 => \A p \in Pixels : ms[1][p] = 4
        /\ len > 3 => \A p \in Pixels : ms[2][p] = 9 }

\* main, called with correct_mask = True (the default of its signature),
\* after generateSCLArray returned, about to composite the bands with one
\* of the colour balancing modes.  The masks generateBandArray loads are
\* the masks generateSCLArray loaded.
InitTasks ==
    /\ algorithm = "MOST_RECENT"
    /\ correct_mask = TRUE
    /\ \E k \in 1..MaxScenes : scenes = sortScenes([i \in 1..k |-> i])
    /\ masks \in TaskMasks(Len(scenes))
    /\ LET r == composite(masks, algorithm, 1,
                          [scl_out |-> [p \in Pixels |-> 0],
                           image_n |-> [p \in Pixels |-> 0]])
       IN  scl_out = r.scl_out /\ image_n = r.image_n
    /\ n = Len(scenes)
    /\ pc = "returned"
    /\ colour_balance \in BalanceModes
    /\ band = "B02"
    /\ order = <<>>
    /\ data_out = createOutputArray
    /\ band_scl = <<>>
    /\ visited = <<>>
    /\ corrections = <<>>
    /\ band_pc = "idle"
    /\ IdleRest

\* The call for band b: create the output array, compute the order.
TaskStart(b) ==
    /\ tasks[b].pc = "idle"
    /\ tasks' = IF getImageOrderRaises(image_n)
                THEN [tasks EXCEPT ![b].pc = "raised"]
                ELSE [writeBand(tasks, b, createOutputArray) EXCEPT
                          ![b].order = getImageOrder(scenes, image_n),
                          ![b].pc = "loop"]
    /\ UNCHANGED outsideTasks

\* One iteration of the loop of the call for band b: the band and the
\* corrected mask of the scene are loaded, the band is balanced against
\* the output of this call (written in place, in the array loadBand
\* returned to this call), and the pixels image_n gives to the scene are
\* written.  The call raises where the scene has no good pixel to divide
\* by, and after histogram matching of a scene without a masked pixel.
TaskStep(b) ==
    /\ tasks[b].pc = "loop"
    /\ tasks[b].order # <<>>
    /\ \E loaded_mask \in loadMask(Head(tasks[b].order), TRUE) :
        LET num == Head(tasks[b].order)
            data_resampled == loadBand(scenes[num], b)
            taken == correction(colour_balance, tasks[b].data_out,
                                loaded_mask)
        IN  IF \/ taken = "raise"
               \/ taken = "matching" /\ good_px(loaded_mask) = Pixels
            THEN tasks' = [tasks EXCEPT ![b].pc = "raised"]
            ELSE \E corrected \in balanced(colour_balance, tasks[b].data_out,
                                           data_resampled, loaded_mask) :
                    tasks' =
                        [writeBand(tasks, b,
                                   updateBandArray(tasks[b].data_out,
                                                   corrected, image_n, num))
                            EXCEPT ![b].order = Tail(tasks[b].order)]
    /\ UNCHANGED outsideTasks

\* After the loop of the call for band b: the raster is written, returned.
TaskFinish(b) ==
    /\ tasks[b].pc = "loop"
    /\ tasks[b].order = <<>>
    /\ tasks' = [tasks EXCEPT ![b].pc = "returned"]
    /\ UNCHANGED outsideTasks

NextTasks ==
    \E b \in Bands : TaskStart(b) \/ TaskStep(b) \/ TaskFinish(b)

SpecTasks == InitTasks /\ [][NextTasks]_vars

\* The ways generateBandArray can end for band b when it runs alone on the
\* scenes of ord, its output out so far: "raised", or the array returned.
\* (Histogram matching leaves the last digit of a value to the platform.)
RECURSIVE oneAfterAnother(_, _, _)
oneAfterAnother(b, ord, out) ==
    IF ord = <<>> THEN {[pc |-> "returned", data_out |-> out]}
    ELSE UNION {
        IF \/ correction(colour_balance, out, m) = "raise"
           \/ /\ correction(colour_balance, out, m) = "matching"
              /\ good_px(m) = Pixels
        THEN {[pc |-> "raised", data_out |-> createOutputArray]}
        ELSE UNION {
            oneAfterAnother(b, Tail(ord),
                            updateBandArray(out, c, image_n, Head(ord))) :
            c \in balanced(colour_balance, out,
                           loadBand(scenes[Head(ord)], b), m) } :
        m \in loadMask(Head(ord), TRUE) }

\* The ways the call for band b can end when the bands are composited one
\* after another.
alone(b) ==
    IF getImageOrderRaises(image_n)
    THEN {[pc |-> "raised", data_out |-> createOutputArray]}
    ELSE oneAfterAnother(b, getImageOrder(scenes, image_n),
                         createOutputArray)

MaskLen == 6
MaskPixels == 1..MaskLen

\* Classes of the masks handed to improveMask: no data, dark feature,
\* vegetation, medium and high probability cloud.
MaskCodes == {0, 2, 4, 8, 9}

\* Pixel sizes: 60 m, and two coarser ones at which the three distances
\* of improveMask are a few pixels.
Resolutions == {60, 180, 600}

\* One pass of scipy's binary_dilation and binary_erosion with the default
\* structuring element: a pixel and its two neighbours.  Outside the array
\* every pixel counts as unset.
dilate(S) == { i \in MaskPixels : i \in S \/ i - 1 \in S \/ i + 1 \in S }
erode(S) == { i \in S : i - 1 \in S /\ i + 1 \in S }

\* binary_dilation(input, iterations): the pass repeated iterations times,
\* or, with iterations below 1, until the result no longer changes.
RECURSIVE binary_dilation(_, _)
binary_dilation(S, iterations) ==
    IF iterations = 1 \/ dilate(S) = S THEN dilate(S)
    ELSE binary_dilation(dilate(S), iterations - 1)

RECURSIVE binary_erosion(_, _)
binary_erosion(S, iterations) ==
    IF iterations = 1 \/ erode(S) = S THEN erode(S)
    ELSE binary_erosion(erode(S), iterations - 1)

\* The pixels of one class.
classOf(d, i) == { j \in MaskPixels : d[j] = i }

\* The dilations run one after the other on the array itself, each class
\* grown from what the class before it left.
improveMask_inPlace(d, r) ==
    LET data_orig == d
        dark == [j \in MaskPixels |-> IF d[j] = 2 THEN 3 ELSE d[j]]
        cloud_dilated ==
            binary_dilation(classOf(dark, 8) \cup classOf(dark, 9),
                            1800 \div r)
        shadow == [j \in MaskPixels |->
                      IF dark[j] = 3 /\ j \notin cloud_dilated
                      THEN 6 ELSE dark[j]]
        grownInto(a, i) ==
            [j \in MaskPixels |->
                IF j \in binary_dilation(classOf(a, i), 180 \div r)
                THEN i ELSE a[j]]
        data_temp == grownInto(grownInto(grownInto(shadow, 3), 8), 9)
        mask_erode ==
            binary_erosion({ j \in MaskPixels : data_orig[j] # 0 },
                           600 \div r)
    IN  [returned |-> [j \in MaskPixels |->
                          IF j \in mask_erode THEN data_temp[j] ELSE 0],
         dilated |-> data_temp,
         data |-> shadow]

\* improveMask(data, res): the array returned, and the array data names in
\* the caller once the function is through with it.  The first two
\* assignments write to data itself; the copy is made after them.
improveMask(d, r) ==
    LET data_orig == d
        dark == [j \in MaskPixels |-> IF d[j] = 2 THEN 3 ELSE d[j]]
        cloud_dilated ==
            binary_dilation(classOf(dark, 8) \cup classOf(dark, 9),
                            1800 \div r)
        shadow == [j \in MaskPixels |->
                      IF dark[j] = 3 /\ j \notin cloud_dilated
                      THEN 6 ELSE dark[j]]
        dilatedInto(temp, i) ==
            [j \in MaskPixels |->
                IF j \in binary_dilation(classOf(shadow, i), 180 \div r)
                THEN i ELSE temp[j]]
        data_temp == dilatedInto(dilatedInto(dilatedInto(shadow, 3), 8), 9)
        mask_erode ==
            binary_erosion({ j \in MaskPixels : data_orig[j] # 0 },
                           600 \div r)
    IN  [returned |-> [j \in MaskPixels |->
                          IF j \in mask_erode THEN data_temp[j] ELSE 0],
         dilated |-> data_temp,
         data |-> shadow]

InitMask ==
    /\ IdleSCL
    /\ IdleBand
    /\ IdleMain /\ IdleSel /\ IdleSort /\ IdleTasks /\ IdlePre /\ IdleHist
    /\ mask_data \in [MaskPixels -> MaskCodes]
    /\ mask_res \in Resolutions
    /\ mask_returned = <<>>
    /\ mask_dilated = <<>>
    /\ mask_pc = "idle"

\* mask = improveMask(mask_data, mask_res)
ImproveMask ==
    /\ mask_pc = "idle"
    /\ \E improved \in {improveMask(mask_data, mask_res)} :
        /\ mask_returned' = improved.returned
        /\ mask_dilated' = improved.dilated
        /\ mask_data' = improved.data
    /\ mask_pc' = "returned"
    /\ UNCHANGED mask_res
    /\ UNCHANGED outsideMask

NextMask == ImproveMask

SpecMask == InitMask /\ [][NextMask]_vars

\* C19: improveMask returns the improved mask, a function of the mask and
\* the pixel size alone, and leaves the array passed to it as it was.
ImproveMaskIsPure ==
    [][mask_pc' = "returned" /\ mask_pc = "idle" =>
          /\ mask_data' = mask_data
          /\ mask_returned' = improveMask(mask_data, mask_res).returned]_vars

\* ================================================ calls of histogram_match
\* histogram_match called on its own: source and reference are raveled
\* arrays of up to HistLen elements.
HistLen == 3
HistValues == {1, 2, 5}
HistArrays == UNION { [1..k -> HistValues] : k \in 1..HistLen }

\* The masks of an array: one flag for each element.
MasksOf(a) == [DOMAIN a -> BOOLEAN]

InitHist ==
    /\ IdleSCL
    /\ IdleBand
    /\ IdleMain /\ IdleSel /\ IdleSort /\ IdleTasks /\ IdlePre /\ IdleMask
    /\ hist_source \in HistArrays
    /\ hist_mask = [i \in DOMAIN hist_source |-> FALSE]
    /\ hist_reference \in HistArrays
    /\ hist_target = <<>>
    /\ hist_target_mask = <<>>
    /\ hist_pc = "idle"

\* target = histogram_match(source, reference), source the masked array of
\* hist_source and hist_mask.
HistogramMatch ==
    /\ hist_pc = "idle"
    /\ \E hist_result \in
             {histogram_match_masked(hist_source, hist_mask, hist_reference)} :
           /\ hist_target' = hist_result.data
           /\ hist_target_mask' = hist_result.mask
    /\ hist_pc' = "returned"
    /\ UNCHANGED <<hist_source, hist_mask, hist_reference>>
    /\ UNCHANGED outsideHist

NextHist == HistogramMatch

SpecHist == InitHist /\ [][NextHist]_vars

\* C20: histogram_match of an array against itself returns the array: at
\* every position the value of the source.
SelfMatchIsIdentity ==
    hist_pc = "returned" /\ hist_reference = hist_source =>
        \A i \in DOMAIN hist_source :
            hist_target[i] = fraction(hist_source[i], 1)

\* An array of three values, not all alike and not in order, was matched
\* against itself.
SelfMatchIsIdentityWitness ==
    /\ hist_pc = "returned" /\ hist_reference = hist_source
    /\ Len(hist_source) = 3
    /\ hist_source[1] > hist_source[2]
    /\ hist_source[3] = hist_source[1]

\* ------------------------------------------ histogram_match, masked source
\* The references of the masked calls: arrays of one or two values.
HistReferences == UNION { [1..k -> HistValues] : k \in 1..2 }

InitHistMasked ==
    /\ IdleSCL
    /\ IdleBand
    /\ IdleMain /\ IdleSel /\ IdleSort /\ IdleTasks /\ IdlePre /\ IdleMask
    /\ hist_source \in HistArrays
    /\ hist_mask \in MasksOf(hist_source)
    /\ is_masked(hist_mask)
    /\ hist_reference \in HistReferences
    /\ hist_target = <<>>
    /\ hist_target_mask = <<>>
    /\ hist_pc = "idle"

SpecHistMasked == InitHistMasked /\ [][NextHist]_vars

\* C21: with a masked source the array returned is masked at the masked
\* positions of the source and nowhere else; its data, which
\* generateBandArray takes, hold the original value of the source at
\* every masked position, and at the others the values of
\* histogram_match applied to the unmasked elements alone.
MaskedPassThrough ==
    hist_pc = "returned" =>
        /\ hist_target_mask = hist_mask
        /\ \A i \in DOMAIN hist_source :
               IF hist_mask[i]
               THEN hist_target[i] = fraction(hist_source[i], 1)
               ELSE \E j \in DOMAIN compressed(hist_source, hist_mask) :
                       /\ compressed(hist_source, hist_mask)[j]
                              = hist_source[i]
                       /\ hist_target[i] =
                              histogram_match(
                                  compressed(hist_source, hist_mask),
                                  hist_reference)[j]

\* ========================================================== _getImageOrder
\* _getImageOrder called on its own, with scene lists drawn from the second
\* pool and an image_n of OrderPix pixels.
OrderPix == 4

\* The lists main hands over: scenes of the second pool, sorted.
OrderLists ==
    UNION { { sortScenes(l) :
                l \in { q \in [1..k -> PoolB] :
                           \A i, j \in 1..k : i # j => q[i] # q[j] } }
            : k \in 1..MaxScenes }

InitOrder ==
    /\ algorithm = "TEMP_HOMOGENEITY"
    /\ correct_mask = TRUE
    /\ scenes \in OrderLists
    /\ image_n \in [1..OrderPix -> 0..Len(scenes)]
    /\ masks = <<>>
    /\ scl_out = [p \in 1..OrderPix |-> IF image_n[p] > 0 THEN 4 ELSE 0]
    /\ n = Len(scenes)
    /\ pc = "returned"
    /\ IdleBand
    /\ IdleRest

\* for n in _getImageOrder(scenes, image_n): the order is computed, or the
\* call raises.
GetImageOrder ==
    /\ band_pc = "idle"
    /\ IF getImageOrderRaises(image_n)
       THEN order' = <<>> /\ band_pc' = "raised"
       ELSE order' = getImageOrder(scenes, image_n) /\ band_pc' = "ordered"
    /\ UNCHANGED <<colour_balance, band, data_out, band_scl, visited,
                   corrections>>
    /\ UNCHANGED <<sclVars, restVars>>

NextOrder == GetImageOrder

SpecOrder == InitOrder /\ [][NextOrder]_vars

\* The square of the distance between the footprint centres of the scenes
\* at places k and d of the list, both in the system of scene d.
distance(k, d) ==
    LET c == sceneCentre(scenes[k])
        t == TransformPoint(sceneEPSG(scenes[k]), sceneEPSG(scenes[d]),
                            c.x, c.y)
        r == sceneCentre(scenes[d])
    IN  (t[2] - r.y) * (t[2] - r.y) + (t[1] - r.x) * (t[1] - r.x)

\* The order is sorted by the distance to scene d ascending, then the tile
\* descending, then the pixel count descending.
sortedAround(d) ==
    \A i, j \in DOMAIN order :
        i < j =>
            LET a == order[i]
                b == order[j]
            IN  \/ distance(a, d) < distance(b, d)
                \/ /\ distance(a, d) = distance(b, d)
                   /\ sceneTile(scenes[a]) > sceneTile(scenes[b])
                \/ /\ distance(a, d) = distance(b, d)
                   /\ sceneTile(scenes[a]) = sceneTile(scenes[b])
                   /\ tile_count(image_n, a) >= tile_count(image_n, b)

\* C23: the order is sorted by ascending distance to the dominant scene,
\* then by tile descending, then by pixel count descending, and the
\* dominant scene, a scene that contributes the most pixels, comes first.
OrderAroundDominantScene ==
    band_pc = "ordered" =>
        \E d \in DOMAIN scenes :
            /\ \A k \in DOMAIN scenes :
                   tile_count(image_n, k) <= tile_count(image_n, d)
            /\ order[1] = d
            /\ sortedAround(d)


\* ------------------------------------------- generateBandArray, balanced
\* The classes a mask of a list of len scenes is drawn from: good pixels
\* of the vegetation and water classes and pixels of a cloud class for a
\* short list, two classes for a longer one.
balanceCodes(len) == IF len <= 2 THEN {4, 6, 9} ELSE {4, 9}

\* The masks of a list of len scenes: the first scene of a list of more
\* than three is good all over.
BalanceMasks(len) ==
    { ms \in [1..len -> [Pixels -> balanceCodes(len)]] :
        len > 3 => \A p \in Pixels : ms[1][p] = 4 }

\* main, called with correct_mask = True (the default of its signature),
\* after generateSCLArray returned: the scenes, their masks and the two
\* arrays it built from them.
InitBalance ==
    /\ algorithm = "MOST_RECENT"
    /\ correct_mask = TRUE
    /\ \E k \in 1..MaxScenes : scenes = sortScenes([i \in 1..k |-> i])
    /\ masks \in BalanceMasks(Len(scenes))
    /\ LET r == composite(masks, algorithm, 1,
                          [scl_out |-> [p \in Pixels |-> 0],
                           image_n |-> [p \in Pixels |-> 0]])
       IN  scl_out = r.scl_out /\ image_n = r.image_n
    /\ n = Len(scenes)
    /\ pc = "returned"
    /\ IdleBand
    /\ IdleRest

SpecBalance == InitBalance /\ [][NextBand]_vars

\* The correction of a scene that is good at some pixel, as a table of the
\* mode and of the counts of overlapping and of good pixels.
tabulated(cb, data, scl_resampled) ==
    LET f_num == Cardinality({ p \in Pixels :
                                 Good(scl_resampled[p]) /\ data[p] # 0 })
        f_den == Cardinality({ p \in Pixels : Good(scl_resampled[p]) })
    IN  IF cb = "none" \/ \A p \in Pixels : data[p] = 0 THEN {"none"}
        ELSE IF 100 * f_num <= 2 * f_den THEN {"adding"}
        ELSE IF 100 * f_num <= 50 * f_den
             THEN IF cb = "aggressive" THEN {"scaling"} ELSE {"adding"}
        ELSE {"matching"}

\* C24: the branch generateBandArray takes for a scene is the one the mode
\* and the overlap fraction f of the scene, as the mask loaded for it shows
\* it, with the filled output select:
\* none with mode 'none' or an empty output, none for f <= 2%, gain
\* compensation in 'aggressive' and none in 'basic' for 2% < f <= 50%,
\* histogram matching in both for f > 50%; and where no correction is
\* selected the band is written as it was loaded.
CorrectionByModeAndOverlap ==
    [][(band_pc = "loop" /\ order # <<>> /\ corrections' # corrections) =>
          LET num == Head(order)
              chosen == corrections'[Len(corrections')]
          IN  /\ Len(corrections') = Len(corrections) + 1
              /\ chosen \in tabulated(colour_balance, data_out, band_scl')
              /\ chosen \in {"none", "adding"} =>
                     data_out' = updateBandArray(data_out,
                                     loadBand(scenes[num], band),
                                     image_n, num)]_vars

\* An aggressive run has returned: the first scene was written as it was
\* loaded, the second was scaled, and the third, which lies clear of the
\* filled output, was added as it is.
CorrectionByModeAndOverlapWitness ==
    /\ band_pc = "returned"
    /\ colour_balance = "aggressive"
    /\ corrections = <<"none", "scaling", "adding">>


\* The values a pixel of value v can hold after gain compensation by
\* ref / this: the whole numbers nearest to v * ref / this, in 16 bits;
\* with a mean of 0 in the scene the value is not defined, and comes out
\* as 0 or as the largest value.
scaledValues(v, ref, this) ==
    IF this = 0 THEN {0, UInt16 - 1}
    ELSE { w % UInt16 : w \in { x \in 0..((v * ref) \div this + 1) :
                                  /\ 2 * (x * this - v * ref) <= this
                                  /\ 2 * (v * ref - x * this) <= this } }

\* The pixels generateBandArray writes in a step that took the gain
\* compensation branch hold the scaled value where the mask of the scene
\* loaded in that step has one of the classes of S and the loaded value
\* elsewhere.
gainOnClasses(S) ==
    (band_pc = "loop" /\ order # <<>> /\ corrections' # corrections
         /\ corrections'[Len(corrections')] = "scaling") =>
        LET num == Head(order)
            data_resampled == loadBand(scenes[num], band)
            shared == { p \in Pixels :
                          Good(band_scl'[p]) /\ data_out[p] # 0 }
        IN  \A p \in Pixels :
                IF image_n[p] # num THEN data_out'[p] = data_out[p]
                ELSE IF band_scl'[p] \in S
                THEN data_out'[p] \in scaledValues(data_resampled[p],
                                         sum(data_out, shared),
                                         sum(data_resampled, shared))
                ELSE data_out'[p] = data_resampled[p]

\* C25, as claimed: gain compensation scales all the good pixels of the
\* scene, of class 4, 5 or 6, by mean(output[overlap]) /
\* mean(scene[overlap]), and leaves every other pixel unscaled.
GainOnGoodPixels == [][gainOnClasses({4, 5, 6})]_vars

\* C25, amended: gain compensation scales the good pixels of the scene
\* that are not water, of class 4 or 5, by mean(output[overlap]) /
\* mean(scene[overlap]), rounded to the nearest whole number, and leaves
\* every other pixel, the water pixels of class 6 included, unscaled.
GainOnGoodPixelsButWater == [][gainOnClasses({4, 5})]_vars

\* The second scene was scaled and written at a pixel of class 4, which
\* holds another value than was loaded.
GainOnGoodPixelsButWaterWitness ==
    /\ band_pc = "loop"
    /\ Len(corrections) = 2
    /\ corrections[2] = "scaling"
    /\ \E p \in Pixels :
        /\ image_n[p] = visited[2]
        /\ band_scl[p] = 4
        /\ data_out[p] # loadBand(scenes[visited[2]], band)[p]


\* ------------------------------------------- improveMask, the dilations
\* After the call the array of the caller holds the mask as it was right
\* before the dilations (lines 672 and 680 write to it, line 694 rebinds
\* the name), mask_dilated holds the working copy as line 694 commits it,
\* and the array returned holds the committed mask wherever the erosion has
\* not set it to 0.
\* Pixel j lies within the buffer distance (180 m) of a pixel that had
\* class c before the dilations.
withinBuffer(j, c) ==
    \E i \in MaskPixels :
        /\ mask_data[i] = c
        /\ i - j <= 180 \div mask_res
        /\ j - i <= 180 \div mask_res

\* The dilated classes within whose buffer distance pixel j lies.
classesNear(j) == { c \in {3, 8, 9} : withinBuffer(j, c) }

\* A pixel takes a class in the pass only within the buffer distance of a
\* pixel that had the class before the pass, and what is committed is what
\* is returned, but for the erosion.
takenFromSnapshot ==
    \A j \in MaskPixels :
        /\ mask_dilated[j] # mask_data[j] =>
               mask_dilated[j] \in classesNear(j)
        /\ mask_returned[j] # 0 => mask_returned[j] = mask_dilated[j]

ResortInputs ==
    UNION { { [i \in 1..r[2] |-> 200 + r[1] + i - 1],
              [i \in 1..r[2] |-> 200 + r[1] + r[2] - i] } :
            r \in { x \in (1..MaxTile) \X (1..MaxTile) :
                      x[1] + x[2] - 1 <= MaxTile } }

InitResort ==
    /\ IdleSCL
    /\ IdleBand
    /\ IdleMain /\ IdleSel /\ IdleTasks /\ IdlePre /\ IdleMask /\ IdleHist
    /\ sort_in \in ResortInputs
    /\ sort_by = "tile"
    /\ sort_out = <<>>
    /\ sort_pc = "idle"

\* generateSCLArray(scenes_tile, ...) called by main with the list main
\* sorted: the list is sorted again and the two arrays are created.
SCLResort ==
    /\ pc = "idle"
    /\ sort_pc = "returned"
    /\ scenes' = sortScenes(sort_out)
    /\ \E alg \in Algorithms : algorithm' = alg
    /\ \E correct \in BOOLEAN : correct_mask' = correct
    /\ scl_out' = createOutputArray
    /\ image_n' = createOutputArray
    /\ masks' = <<>>
    /\ n' = 0
    /\ pc' = "loop"
    /\ UNCHANGED sortVars
    /\ UNCHANGED outsideSort

NextResort == SortScenes \/ SCLResort

SpecResort == InitResort /\ [][NextResort]_vars

\* C27: the number n that generateSCLArray records for a scene of the
\* list it sorted again denotes the scene generateBandArray reads as
\* scenes[n-1] from the list main sorted: sorting the sorted list leaves
\* its order unchanged, also where scenes share tile and acquisition time.
NumberingAgrees ==
    pc = "loop" =>
        /\ Len(scenes) = Len(sort_out)
        /\ \A k \in DOMAIN scenes : scenes[k] = sort_out[k]


\* ------------------------------------- generateBandArray, empty image_n
\* C28: generateBandArray handed an image_n without a filled pixel
\* completes without error and returns an all-zero raster.
EmptyProvenanceGivesZeroRaster ==
    (band_pc \in {"returned", "raised"}
         /\ \A p \in Pixels : image_n[p] = 0) =>
        /\ band_pc = "returned"
        /\ \A p \in Pixels : data_out[p] = 0

\* ============================================================ _run_workers
\* preprocess.py: the jobs are put on a multiprocessing.Queue and worked off
\* by n_processes worker processes, each running _do_work.
MaxJobs == 2
MaxProcesses == 2

InitWork ==
    /\ IdleSCL
    /\ IdleBand
    /\ IdleMain /\ IdleSel /\ IdleSort /\ IdleTasks /\ IdleL2A /\ IdleMask
    /\ IdleHist
    /\ n_processes \in 0..MaxProcesses
    /\ \E k \in 0..MaxJobs : jobs = [j \in 1..k |-> j]
    /\ queued = 0
    /\ job_buffer = <<>>
    /\ job_pipe = <<>>
    /\ workers = <<>>
    /\ runs = [j \in DOMAIN jobs |-> 0]
    /\ counter = 0
    /\ joined = 0
    /\ run_pc = "called"

\* for job in jobs: job_queue.put(job), one job at a step.  put appends
\* the job to the buffer of the queue and returns; after the last job the
\* loop that starts the workers begins.
QueueJobs ==
    /\ run_pc = "called"
    /\ IF queued < Len(jobs)
       THEN /\ job_buffer' = Append(job_buffer, jobs[queued + 1])
            /\ queued' = queued + 1
            /\ UNCHANGED run_pc
       ELSE /\ run_pc' = "starting"
            /\ UNCHANGED <<job_buffer, queued>>
    /\ UNCHANGED <<n_processes, jobs, job_pipe, workers, runs, counter, joined>>
    /\ UNCHANGED <<outsideProcessing, l2aVars>>

\* The feeder thread of the queue, started by the first put, sends the
\* oldest job of the buffer down the pipe, at a time of its own.
Feed ==
    /\ job_buffer # <<>>
    /\ job_pipe' = Append(job_pipe, Head(job_buffer))
    /\ job_buffer' = Tail(job_buffer)
    /\ UNCHANGED <<n_processes, jobs, queued, workers, runs, counter, joined,
                   run_pc>>
    /\ UNCHANGED <<outsideProcessing, l2aVars>>

\* tmp = multiprocessing.Process(target=_do_work, ...); tmp.start(), and
\* after the last of them the loop of joins begins.
StartWorker ==
    /\ run_pc = "starting"
    /\ IF Len(workers) < n_processes
       THEN /\ workers' = Append(workers, [pc |-> "test", job |-> 0])
            /\ UNCHANGED run_pc
       ELSE /\ run_pc' = "joining"
            /\ UNCHANGED workers
    /\ UNCHANGED <<n_processes, jobs, queued, job_buffer, job_pipe, runs,
                   counter, joined>>
    /\ UNCHANGED <<outsideProcessing, l2aVars>>

\* while not job_queue.empty(): empty() is True whenever the pipe holds no
\* job, whatever the buffer holds.
WorkerTest(w) ==
    /\ workers[w].pc = "test"
    /\ workers' = [workers EXCEPT
                      ![w].pc = IF job_pipe = <<>> THEN "exited" ELSE "get"]
    /\ UNCHANGED <<n_processes, jobs, queued, job_buffer, job_pipe, runs,
                   counter, joined, run_pc>>
    /\ UNCHANGED <<outsideProcessing, l2aVars>>

\* job = job_queue.get_nowait(): the oldest job of the pipe, or Queue.Empty
\* where the pipe is empty by now or another worker holds the lock of the
\* queue; Queue.Empty is passed over and the loop goes on.
WorkerGet(w) ==
    /\ workers[w].pc = "get"
    /\ \/ /\ job_pipe # <<>>
          /\ workers' = [workers EXCEPT ![w].pc = "run",
                                        ![w].job = Head(job_pipe)]
          /\ job_pipe' = Tail(job_pipe)
       \/ /\ \/ job_pipe = <<>>
             \/ \E o \in DOMAIN workers : o # w /\ workers[o].pc = "get"
          /\ workers' = [workers EXCEPT ![w].pc = "test"]
          /\ UNCHANGED job_pipe
    /\ UNCHANGED <<n_processes, jobs, queued, job_buffer, runs, counter,
                   joined, run_pc>>
    /\ UNCHANGED <<outsideProcessing, l2aVars>>

\* main_partial(job): the job is run.  Where it returns, the worker goes
\* on to the counter; an exception of the job is passed over (the job, a
\* path, is not empty) and the worker is back at the test of the loop.
WorkerRun(w) ==
    /\ workers[w].pc = "run"
    /\ runs' = [runs EXCEPT ![workers[w].job] = @ + 1]
    /\ \E next \in {"count", "test"} :
           workers' = [workers EXCEPT ![w].pc = next]
    /\ UNCHANGED <<n_processes, jobs, queued, job_buffer, job_pipe, counter,
                   joined, run_pc>>
    /\ UNCHANGED <<outsideProcessing, l2aVars>>

\* with counter.get_lock(): counter.value += 1.  The lock makes the
\* increment one step; the worker waits for it while another holds it.
WorkerCount(w) ==
    /\ workers[w].pc = "count"
    /\ counter' = counter + 1
    /\ workers' = [workers EXCEPT ![w].pc = "test"]
    /\ UNCHANGED <<n_processes, jobs, queued, job_buffer, job_pipe, runs,
                   joined, run_pc>>
    /\ UNCHANGED <<outsideProcessing, l2aVars>>

\* worker.join(), for the workers in the order they were started.
JoinWorker ==
    /\ run_pc = "joining"
    /\ IF joined < n_processes
       THEN /\ workers[joined + 1].pc = "exited"
            /\ joined' = joined + 1
            /\ UNCHANGED run_pc
       ELSE /\ run_pc' = "returned"
            /\ UNCHANGED joined
    /\ UNCHANGED <<n_processes, jobs, queued, job_buffer, job_pipe, workers,
                   runs, counter>>
    /\ UNCHANGED <<outsideProcessing, l2aVars>>

NextWork ==
    \/ QueueJobs
    \/ Feed
    \/ StartWorker
    \/ \E w \in DOMAIN workers :
           WorkerTest(w) \/ WorkerGet(w) \/ WorkerRun(w) \/ WorkerCount(w)
    \/ JoinWorker

SpecWork == InitWork /\ [][NextWork]_vars

\* No job is run twice, and none is in the hands of two workers.
atMostOnce ==
    /\ \A j \in DOMAIN runs : runs[j] <= 1
    /\ \A w, o \in DOMAIN workers :
           (w # o /\ workers[w].pc = "run" /\ workers[o].pc = "run")
               => workers[w].job # workers[o].job

\* C29: with workers and without a keyboard interrupt every queued job is
\* taken by one worker and run once, and _run_workers returns only after
\* all jobs have been run and all workers have terminated.
EveryJobRunOnce ==
    /\ atMostOnce
    /\ (run_pc = "returned" /\ n_processes >= 1) =>
           /\ \A j \in DOMAIN runs : runs[j] = 1
           /\ \A w \in DOMAIN workers : workers[w].pc = "exited"


\* ================================================================ L2A.main
\* The level 2A files testCompletion looks for, by resolution.
expectedBands(res) ==
    IF res = 10 THEN {"B02", "B03", "B04", "B08", "AOT", "TCI", "WVP"}
    ELSE IF res = 20
    THEN {"B02", "B03", "B04", "B05", "B06", "B07", "B8A", "B11", "B12",
          "AOT", "TCI", "WVP", "VIS", "SCL", "SCL_old"}
    ELSE {"B01", "B02", "B03", "B04", "B05", "B06", "B07", "B8A", "B11",
          "B12", "AOT", "TCI", "WVP", "SCL", "SCL_old"}

\* The resolutions of a call of testCompletion: 0 stands for all three.
testedResolutions(resolution) ==
    IF resolution = 0 THEN {10, 20, 60} ELSE {resolution}

expectedFiles(resolution) ==
    { f \in {10, 20, 60} \X {"B01", "B02", "B03", "B04", "B05", "B06", "B07",
                             "B08", "B8A", "B11", "B12", "AOT", "TCI", "WVP",
                             "VIS", "SCL", "SCL_old"} :
        f[1] \in testedResolutions(resolution) /\ f[2] \in expectedBands(f[1]) }

\* The files sen2cor can fail to write in the model, and the files it is
\* meant to write: all that are expected but the copies of the masks,
\* which writeMask makes.
Droppable == {<<10, "B02">>, <<20, "B05">>, <<20, "SCL">>, <<60, "SCL">>}
sen2corFiles(resolution) ==
    { f \in expectedFiles(resolution) : f[2] # "SCL_old" }

\* testCompletion(L1C_file, output_dir, resolution) with the files found
\* under output_dir.
testCompletion(files, resolution) ==
    LET missing == expectedFiles(resolution) \ files
        band_creation_failure ==
            \E f \in missing : f[2] \notin {"SCL", "SCL_old"}
        mask_enhancement_failure ==
            \E f \in missing : f[2] \in {"SCL", "SCL_old"}
    IN  ~(band_creation_failure /\ mask_enhancement_failure)

\* The files removeL1C tests: it calls testCompletion(L1C_file), with the
\* working directory for output_dir and with all three resolutions.  In
\* the working directory there are no level 2A files of the granule unless
\* it is the output directory.
filesInCwd == IF l2a_args.output_dir = "cwd" THEN DOMAIN l2a_files ELSE {}

\* A directory with the files fs, each as sen2cor writes it.
asWritten(fs) == [f \in fs |-> 0]

\* The names of a mask and of its copies: writeMask copies the file at
\* image_path to image_path[:-7] + 'old_' + image_path[-7:], the name with
\* old_ before the resolution.  copies(name) counts the old_ in a name.
\* MaxWrites bounds the copies of copies and the times a content is
\* improved in the model.
MaxWrites == 2
MaskNames == <<"SCL", "SCL_old", "SCL_old_old", "SCL_old_old_old">>
copies(name) == (CHOOSE d \in DOMAIN MaskNames : MaskNames[d] = name) - 1
oldName(name) == MaskNames[copies(name) + 2]

\* glob('.../R<res>m/*_SCL_*m.jp2') in loadMask: the mask of the
\* resolution and every copy of it.
globSCL(res) ==
    { f \in DOMAIN l2a_files :
        f[1] = res /\ \E d \in DOMAIN MaskNames : MaskNames[d] = f[2] }

InitL2A ==
    /\ IdleSCL
    /\ IdleBand
    /\ IdleMain /\ IdleSel /\ IdleSort /\ IdleTasks /\ IdleWork /\ IdleMask
    /\ IdleHist
    /\ l2a_args \in [resolution : {0, 10, 20, 30, 60}, remove : BOOLEAN,
                     output_dir : {"cwd", "other"}]
    /\ l2a_files \in {asWritten({}), asWritten(sen2corFiles(0))}
    /\ l1c_present = TRUE
    /\ l2a_error = ""
    /\ l2a_pc = "called"

\* main: L2A_file = processToL2A(infile, ...), and with it all of main.
\* processToL2A asserts the resolution, raises ValueError where the output
\* granule exists, and runs sen2cor through _runCommand.  _runCommand
\* raises Exception('Command failed') where sen2cor fails, and where it
\* succeeds its return statement, text.decode('utf-8'),split('/n'), names
\* an undefined split: NameError.  processToL2A removes its options file
\* and raises again, and so does main; the lines of main after the call
\* are never reached.  sen2cor has written its files, or not all of them.
ProcessToL2A ==
    /\ l2a_pc = "called"
    /\ IF l2a_args.resolution \notin {0, 10, 20, 60}
       THEN l2a_error' = "AssertionError" /\ UNCHANGED l2a_files
       ELSE IF DOMAIN l2a_files # {}
       THEN l2a_error' = "ValueError" /\ UNCHANGED l2a_files
       ELSE /\ \E dropped \in SUBSET Droppable :
                   l2a_files' =
                       asWritten(sen2corFiles(l2a_args.resolution) \ dropped)
            /\ l2a_error' \in {"NameError", "Exception"}
    /\ l2a_pc' = "raised"
    /\ UNCHANGED <<l2a_args, l1c_present>>
    /\ UNCHANGED <<outsideProcessing, workVars>>

\* loadMask, improveMask and writeMask called for the mask of one
\* resolution, after main.  loadMask takes the first file glob finds,
\* the mask or one of its copies, in the order of the directory listing.
\* writeMask copies that file to its old_ name, over a copy that is
\* there already, and overwrites the file with its improved content.
\* (loadMask raises IndexError where glob finds nothing.)
WriteMask(res) ==
    /\ l2a_pc = "raised"
    /\ \E image_path \in globSCL(res) :
        /\ copies(image_path[2]) < MaxWrites
        /\ l2a_files[image_path] < MaxWrites
        /\ l2a_files' =
               [f \in DOMAIN l2a_files \cup {<<res, oldName(image_path[2])>>}
                   |-> IF f = image_path THEN l2a_files[image_path] + 1
                       ELSE IF f = <<res, oldName(image_path[2])>>
                       THEN l2a_files[image_path]
                       ELSE l2a_files[f]]
    /\ UNCHANGED <<l2a_args, l1c_present, l2a_error, l2a_pc>>
    /\ UNCHANGED <<outsideProcessing, workVars>>

\* removeL1C(infile) called after main.  The name of a granule main was
\* handed passes the first two assertions; the third is testCompletion.
RemoveL1C ==
    /\ l2a_pc = "raised"
    /\ IF testCompletion(filesInCwd, 0)
       THEN l2a_pc' = "removed" /\ l1c_present' = FALSE
       ELSE l2a_pc' = "refused" /\ UNCHANGED l1c_present
    /\ UNCHANGED <<l2a_args, l2a_files, l2a_error>>
    /\ UNCHANGED <<outsideProcessing, workVars>>

NextL2A == ProcessToL2A \/ (\E res \in {20, 60} : WriteMask(res)) \/ RemoveL1C

SpecL2A == InitL2A /\ [][NextL2A]_vars

\* C30: removeL1C deletes the level 1C input only if every expected level
\* 2A file, all bands and masks of the processed resolutions, exists, and
\* otherwise its assertion fails and nothing is deleted.
RemovedOnlyWhenComplete ==
    /\ ~l1c_present =>
           \A f \in expectedFiles(l2a_args.resolution) :
               f \in DOMAIN l2a_files
    /\ (l2a_pc \in {"removed", "refused"}
            /\ \E f \in expectedFiles(l2a_args.resolution) :
                   f \notin DOMAIN l2a_files)
           => l2a_pc = "refused" /\ l1c_present

====
